---- MODULE Spec2Model ----
(***************************************************************************)
(* The upload job controller of the SCORE front-end (UploadPage), the App  *)
(* shell that owns the current page and the uploaded-file data, and the    *)
(* transport of scoreApi.ts in its two modes: the in-process simulator     *)
(* (IS_MOCK_MODE) and the HTTP backend.                                    *)
(*                                                                         *)
(* JavaScript runs one task at a time.  A timer tick, a network event and  *)
(* a click are tasks; the continuation of an `await` whose promise is      *)
(* already settled is a microtask and runs before the next task.  Every    *)
(* action below is one task or one microtask, and a task is enabled only   *)
(* when no microtask is pending (MicrotaskPending).  Timer durations are   *)
(* not modelled: timers fire in any order.                                 *)
(***************************************************************************)
EXTENDS Integers, FiniteSets, Sequences, Bags, TLC

\* Bounds of the model.
MaxJobs == 2        \* submissions over one run of the application
MaxInst == 2        \* mounts of UploadPage over one run
MaxInFlight == 2    \* poll callbacks that are suspended at an await at once
MaxK == 21          \* the largest k recommendSongs is called with
MaxTotal == 12      \* the largest size in bytes of an uploaded file

Jobs == 1..MaxJobs
Insts == 1..MaxInst

Min(a, b) == IF a < b THEN a ELSE b

\* The files a user can drop on the page (File.name, File.size).
Files == {[name |-> "a.mp3", size |-> 1]}
NoFileObj == [name |-> "", size |-> 0]

Pages == {"home", "upload", "results"}

VARIABLES
    IS_MOCK_MODE,         \* scoreApi.ts: the transport switch
    currentPage,          \* App: useState<Page>
    uploadedFileData,     \* App: useState<any>(null)
    inst,                 \* number of UploadPage instances mounted so far
    uploadedFile,         \* UploadPage: useState<UploadedFile | null>
    statusCheckInterval,  \* UploadPage: useRef, one per instance
    intervals,            \* the poll interval timers that are active
    uploads,              \* the uploadFile() calls, by submission number
    submitted,            \* number of submissions so far
    jobs,                 \* the job table (mockJobs, or the backend's)
    polls,                \* poll callbacks suspended at an await (a bag)
    navTimers,            \* pending setTimeout(() => setCurrentPage('results'))
    fileData,             \* ResultsPage: the fileData prop
    musicRecommendations, \* ResultsPage: useMemo of the recommendations
    inputFeatures,        \* recommendSongs: the features of the last call
    k,                    \* recommendSongs: the k of the last call
    recommendations,      \* recommendSongs: what the last call returned
    songLibrary,          \* the module's REAL_SONG_LIBRARY array as it is now
    scalerData,           \* standardScale: the data of the last call
    fitted,               \* standardScale: {scaled, mean, std} it returned
    scalerPoint,          \* applyScaling: the point of the last call
    scaledPoint,          \* applyScaling: what the last call returned
    tracks,               \* ResultsPage: useState of the track options
    outputs,              \* ResultsPage: useState of the output options
    isProcessing,         \* ResultsPage: useState(false)
    generatedFiles,       \* ResultsPage: useState<GeneratedFile[]>([])
    processing,           \* handleStartProcessing: its closure and timers
    startClicks,          \* number of clicks on Start Processing so far
    downloaded,           \* DownloadsSection: how the last handleDownload ended
    network,              \* the requests sent by fetch and XMLHttpRequest
    pipelineStatus,       \* ResultsPage: useState of the pipeline steps
    pipelineTimers,       \* ResultsPage: timer1 and timer2 of its effect, if pending
    analysisComplete,     \* ResultsPage: useState(false)
    xhr,                  \* uploadFile: loaded and total of the XMLHttpRequest
    jsProgress            \* uploadedFile.progress as the JavaScript number it is

\* ResultsPage and its recommender.
recommenderVars == <<fileData, musicRecommendations, inputFeatures, k,
                     recommendations, songLibrary, scalerData, fitted,
                     scalerPoint, scaledPoint, tracks, outputs, isProcessing,
                     generatedFiles, processing, startClicks, downloaded,
                     network, pipelineStatus, pipelineTimers, analysisComplete>>

\* The pipeline display of ResultsPage.
pipelineVars == <<pipelineStatus, pipelineTimers, analysisComplete>>

\* The processing options and the downloads of ResultsPage.
pageVars == <<tracks, outputs, isProcessing, generatedFiles, processing,
              startClicks>>

\* A download, and the requests of the transport.
downloadVars == <<downloaded, network>>

\* standardScale and applyScaling called on their own.
scalerVars == <<scalerData, fitted, scalerPoint, scaledPoint>>

\* The progress number of the snapshot, with its fraction.
progressVars == <<xhr, jsProgress>>

vars == <<IS_MOCK_MODE, currentPage, uploadedFileData, inst, uploadedFile,
          statusCheckInterval, intervals, uploads, submitted, jobs, polls,
          navTimers, recommenderVars, progressVars>>

\* App, UploadPage and the transport.
controllerVars == <<IS_MOCK_MODE, currentPage, uploadedFileData, inst,
                    uploadedFile, statusCheckInterval, intervals, uploads,
                    submitted, jobs, polls, navTimers>>

(***************************************************************************)
(* Values                                                                  *)
(***************************************************************************)

\* uploadedFile === null is the controller's idle state.
NoFile == [name |-> "", size |-> 0, status |-> "idle", progress |-> 0,
           jobId |-> 0, error |-> "", currentStep |-> ""]

\* uploadedFileData === null
NoData == [jobId |-> 0, name |-> "", size |-> 0]

NoUpload == [phase |-> "unused", inst |-> 0, file |-> NoFileObj,
             progress |-> 0, outcome |-> ""]

\* An entry of the job table that does not exist (mockJobs.get() === undefined).
NoJob == [status |-> "none", progress |-> 0, currentStep |-> "", error |-> "",
          result |-> FALSE, idx |-> 0, timer |-> FALSE]

\* A steps table with two rows in the wrong order.
steps_Swapped == <<[progress |-> 10, step |-> "Initializing"],
                   [progress |-> 25, step |-> "Format conversion"],
                   [progress |-> 40, step |-> "Audio analysis"],
                   [progress |-> 70, step |-> "Generating MusicXML"],
                   [progress |-> 60, step |-> "AI transcription (Omnizart)"],
                   [progress |-> 85, step |-> "Music engraving (LilyPond)"],
                   [progress |-> 95, step |-> "Instrument separation"],
                   [progress |-> 100, step |-> "Processing complete"]>>

\* startMockProcessing: the steps table.
steps == <<[progress |-> 10, step |-> "Initializing"],
           [progress |-> 25, step |-> "Format conversion"],
           [progress |-> 40, step |-> "Audio analysis"],
           [progress |-> 60, step |-> "AI transcription (Omnizart)"],
           [progress |-> 70, step |-> "Generating MusicXML"],
           [progress |-> 85, step |-> "Music engraving (LilyPond)"],
           [progress |-> 95, step |-> "Instrument separation"],
           [progress |-> 100, step |-> "Processing complete"]>>

\* mockUploadFile: the job as stored by mockJobs.set.
NewMockJob == [status |-> "queued", progress |-> 0, currentStep |-> "Initializing",
               error |-> "", result |-> FALSE, idx |-> 0, timer |-> FALSE]

\* processNextStep with the result never stored (createMockResult dropped).
processNextStep_NoResult(job) ==
    IF job.idx >= Len(steps)
    THEN [job EXCEPT !.status = "completed", !.progress = 100,
                     !.currentStep = "Processing complete", !.timer = FALSE]
    ELSE [job EXCEPT
            !.status = IF job.idx < Len(steps) - 1 THEN "processing" ELSE "completed",
            !.progress = steps[job.idx + 1].progress,
            !.currentStep = steps[job.idx + 1].step,
            !.idx = job.idx + 1,
            !.timer = TRUE]

\* processNextStep with the result stored from the first step on.
processNextStep_ResultEarly(job) ==
    IF job.idx >= Len(steps)
    THEN [job EXCEPT !.result = TRUE, !.status = "completed", !.progress = 100,
                     !.currentStep = "Processing complete", !.timer = FALSE]
    ELSE [job EXCEPT
            !.status = IF job.idx < Len(steps) - 1 THEN "processing" ELSE "completed",
            !.progress = steps[job.idx + 1].progress,
            !.currentStep = steps[job.idx + 1].step,
            !.result = TRUE,
            !.idx = job.idx + 1,
            !.timer = TRUE]

\* processNextStep with the result stored only by the call after the last step.
processNextStep_ResultLate(job) ==
    IF job.idx >= Len(steps)
    THEN [job EXCEPT !.result = TRUE, !.status = "completed", !.progress = 100,
                     !.currentStep = "Processing complete", !.timer = FALSE]
    ELSE [job EXCEPT
            !.status = IF job.idx < Len(steps) - 1 THEN "processing" ELSE "completed",
            !.progress = steps[job.idx + 1].progress,
            !.currentStep = steps[job.idx + 1].step,
            !.idx = job.idx + 1,
            !.timer = TRUE]

\* startMockProcessing.processNextStep, on one job of the table.
processNextStep(job) ==
    IF job.idx >= Len(steps)
    THEN [job EXCEPT !.result = TRUE, !.status = "completed", !.progress = 100,
                     !.currentStep = "Processing complete", !.timer = FALSE]
    ELSE [job EXCEPT
            !.status = IF job.idx < Len(steps) - 1 THEN "processing" ELSE "completed",
            !.progress = steps[job.idx + 1].progress,
            !.currentStep = steps[job.idx + 1].step,
            !.result = IF job.idx = Len(steps) - 1 THEN TRUE ELSE job.result,
            !.idx = job.idx + 1,
            !.timer = TRUE]

(***************************************************************************)
(* The transport (scoreApi.ts)                                             *)
(***************************************************************************)

\* A rejected promise (fetch failed, !response.ok, or a throw in mock mode);
\* error is the message of the Error it rejects with.
Reject == [ok |-> FALSE, status |-> "", progress |-> 0, currentStep |-> "",
           error |-> "Failed to fetch"]

\* The ProcessingStatus a job of the table reports.
StatusOf(job) == [ok |-> TRUE, status |-> job.status, progress |-> job.progress,
                  currentStep |-> job.currentStep, error |-> job.error]

\* A resolved ProcessingResult.
ResultOk == [ok |-> TRUE, status |-> "result", progress |-> 0, currentStep |-> "",
             error |-> ""]

\* A getProcessingStatus that finds no job ('Job not found').
getProcessingStatus_NotFound(j) == Reject

\* getProcessingStatus(jobId), as answered from the job table.  In mock mode
\* the table is read when the call is made; over HTTP the backend answers from
\* its table when the request is made and the answer then travels for any time.
getProcessingStatus(j) ==
    IF jobs[j].status = "none" THEN Reject ELSE StatusOf(jobs[j])

\* A getProcessingResult that always fails.
getProcessingResult_Reject(j) == Reject

\* getProcessingResult(jobId), likewise: the result exists or the call fails.
getProcessingResult(j) ==
    IF jobs[j].status = "none" \/ ~jobs[j].result THEN Reject ELSE ResultOk

\* What an awaited call settles with: its answer, or over HTTP also a failure
\* of the request (fetch rejects, !response.ok).
settled(resp) == IF IS_MOCK_MODE THEN {resp} ELSE {resp, Reject}

\* xhr.upload 'progress' events: the values of (e.loaded / e.total) * 100.
RealProgress == {50, 100}

\* How an HTTP upload ends: a 2xx body with success true or false, or a rejection
\* with the message of the Error.
RealOutcomes == {"ok", "successFalse", "Network error during upload"}

\* Messages a backend job can fail with.
ServerErrors == {"disk full"}

(***************************************************************************)
(* React                                                                   *)
(***************************************************************************)

\* The UploadPage instance i is the one on screen.
Mounted(i) == currentPage = "upload" /\ inst = i

\* setUploadedFile with every update dropped.
Upd_Dropped(i, prev, new) == prev

\* setUploadedFile(prev => prev ? new : null) called by a closure of instance
\* i; a state update of an unmounted component is dropped.
Upd(i, prev, new) == IF Mounted(i) /\ prev.status # "idle" THEN new ELSE prev

\* A task can run: no continuation of an already settled promise is pending.
MicrotaskPending ==
    \/ \E u \in Jobs : uploads[u].phase = "loaded"
    \/ IS_MOCK_MODE /\ polls # EmptyBag

\* setCurrentPage(p): App renders UploadPage only on the upload page, so the
\* page's state is created on entering and destroyed on leaving it.
SetCurrentPage(p) ==
    /\ currentPage' = p
    /\ inst' = IF p = "upload" /\ currentPage # "upload" THEN inst + 1 ELSE inst
    /\ uploadedFile' = IF p # currentPage THEN NoFile ELSE uploadedFile

(***************************************************************************)
(* The user                                                                *)
(***************************************************************************)

\* handleDrop / handleFileSelect -> handleFileUpload(file), up to its await.
\* The dropzone exists only while uploadedFile is null.
Submit(f) ==
    /\ ~MicrotaskPending
    /\ currentPage = "upload"
    /\ uploadedFile = NoFile
    /\ submitted < MaxJobs
    /\ submitted' = submitted + 1
    /\ uploadedFile' = [NoFile EXCEPT !.name = f.name, !.size = f.size,
                                      !.status = "uploading", !.progress = 0]
    /\ uploads' = [uploads EXCEPT ![submitted + 1] =
                      [phase |-> "sending", inst |-> inst, file |-> f,
                       progress |-> 0, outcome |-> ""]]
    /\ UNCHANGED <<recommenderVars, progressVars>>
    /\ UNCHANGED <<IS_MOCK_MODE, currentPage, uploadedFileData, inst,
                   statusCheckInterval, intervals, jobs, polls, navTimers>>

\* resetUpload: the X button of the file panel.
resetUpload ==
    /\ ~MicrotaskPending
    /\ currentPage = "upload"
    /\ uploadedFile # NoFile
    /\ uploadedFile' = NoFile
    /\ UNCHANGED <<recommenderVars, progressVars>>
    /\ UNCHANGED <<IS_MOCK_MODE, currentPage, uploadedFileData, inst,
                   statusCheckInterval, intervals, uploads, submitted, jobs,
                   polls, navTimers>>

\* Navigation / HomePage buttons: setCurrentPage('home' | 'upload').
Navigate(p) ==
    /\ ~MicrotaskPending
    /\ p \in {"home", "upload"}
    /\ p # currentPage
    /\ p = "upload" => inst < MaxInst
    /\ SetCurrentPage(p)
    /\ UNCHANGED <<recommenderVars, progressVars>>
    /\ UNCHANGED <<IS_MOCK_MODE, uploadedFileData, statusCheckInterval, intervals,
                   uploads, submitted, jobs, polls, navTimers>>

\* The delayed navigation of startStatusPolling fires.
NavTimerFire ==
    /\ ~MicrotaskPending
    /\ navTimers > 0
    /\ navTimers' = navTimers - 1
    /\ SetCurrentPage("results")
    /\ UNCHANGED <<recommenderVars, progressVars>>
    /\ UNCHANGED <<IS_MOCK_MODE, uploadedFileData, statusCheckInterval, intervals,
                   uploads, submitted, jobs, polls>>

(***************************************************************************)
(* Upload                                                                  *)
(***************************************************************************)

\* The onProgress callback handleFileUpload passes to uploadFile.
onProgress(i, prev, progress) ==
    Upd(i, prev, [prev EXCEPT !.progress = Min(progress, 100)])

\* mockUploadFile: one tick of its 200 ms interval.  The last tick stores the
\* job, starts its processing (processNextStep runs once at once) and resolves.
MockUploadTick(u) ==
    /\ ~MicrotaskPending
    /\ IS_MOCK_MODE
    /\ uploads[u].phase = "sending"
    /\ LET progress == uploads[u].progress + 10 IN
        /\ uploadedFile' = onProgress(uploads[u].inst, uploadedFile, Min(progress, 100))
        /\ IF progress >= 100
           THEN /\ jobs' = [jobs EXCEPT ![u] = processNextStep(NewMockJob)]
                /\ uploads' = [uploads EXCEPT ![u].progress = progress,
                                              ![u].phase = "loaded",
                                              ![u].outcome = "ok"]
           ELSE /\ jobs' = jobs
                /\ uploads' = [uploads EXCEPT ![u].progress = progress]
    /\ UNCHANGED <<recommenderVars, progressVars>>
    /\ UNCHANGED <<IS_MOCK_MODE, currentPage, uploadedFileData, inst,
                   statusCheckInterval, intervals, submitted, polls, navTimers>>

\* uploadFile over HTTP: an xhr.upload 'progress' event (loaded never decreases).
RealUploadProgress(u, p) ==
    /\ ~MicrotaskPending
    /\ ~IS_MOCK_MODE
    /\ uploads[u].phase = "sending"
    /\ p \in RealProgress
    /\ p > uploads[u].progress
    /\ uploads' = [uploads EXCEPT ![u].progress = p]
    /\ uploadedFile' = onProgress(uploads[u].inst, uploadedFile, p)
    /\ UNCHANGED <<recommenderVars, progressVars>>
    /\ UNCHANGED <<IS_MOCK_MODE, currentPage, uploadedFileData, inst,
                   statusCheckInterval, intervals, submitted, jobs, polls,
                   navTimers>>

\* uploadFile over HTTP: the 'load', 'error' or 'timeout' event settles the
\* promise.  A successful upload has created the job on the backend.
RealUploadEnd(u, outcome) ==
    /\ ~MicrotaskPending
    /\ ~IS_MOCK_MODE
    /\ uploads[u].phase = "sending"
    /\ outcome \in RealOutcomes
    /\ uploads' = [uploads EXCEPT ![u].phase = "loaded", ![u].outcome = outcome]
    /\ jobs' = IF outcome = "ok"
               THEN [jobs EXCEPT ![u] = [NoJob EXCEPT !.status = "queued"]]
               ELSE jobs
    /\ UNCHANGED <<recommenderVars, progressVars>>
    /\ UNCHANGED <<IS_MOCK_MODE, currentPage, uploadedFileData, inst, uploadedFile,
                   statusCheckInterval, intervals, submitted, polls, navTimers>>

\* startStatusPolling without its "Clear previous polling" block.
startStatusPolling_NoClear(i, j) == intervals \cup {j}

\* startStatusPolling, the timers: clear the instance's previous timer, then
\* start the timer of job j.
startStatusPolling(i, j) == (intervals \ {statusCheckInterval[i]}) \cup {j}

\* A callback that leaves the timer running.
clearCurrent_Keep(i) == intervals

\* clearInterval(statusCheckInterval.current) in a callback of instance i.
clearCurrent(i) == intervals \ {statusCheckInterval[i]}

\* handleFileUpload after `await uploadFile(...)`: the success branch and the
\* catch block.
UploadContinue(u) ==
    /\ uploads[u].phase = "loaded"
    /\ LET i == uploads[u].inst
           outcome == uploads[u].outcome
           errorMessage == IF outcome = "successFalse" THEN "Upload failed" ELSE outcome
       IN
        IF outcome = "ok"
        THEN /\ uploadedFile' = Upd(i, uploadedFile,
                    [uploadedFile EXCEPT !.status = "processing", !.jobId = u,
                                         !.progress = 0,
                                         !.currentStep = "Starting processing..."])
             /\ intervals' = startStatusPolling(i, u)
             /\ statusCheckInterval' = [statusCheckInterval EXCEPT ![i] = u]
        ELSE /\ uploadedFile' = Upd(i, uploadedFile,
                    [uploadedFile EXCEPT !.status = "error", !.error = errorMessage])
             /\ UNCHANGED <<intervals, statusCheckInterval>>
    /\ uploads' = [uploads EXCEPT ![u].phase = "done", ![u].progress = 0,
                                  ![u].outcome = ""]
    /\ UNCHANGED <<recommenderVars, progressVars>>
    /\ UNCHANGED <<IS_MOCK_MODE, currentPage, uploadedFileData, inst, submitted,
                   jobs, polls, navTimers>>

(***************************************************************************)
(* Polling                                                                 *)
(***************************************************************************)

One(m) == SetToBag({m})

\* A catch block that shows the text of the exception it caught.
pollCatch_Raw(i, prev) ==
    Upd(i, prev, [prev EXCEPT !.status = "error", !.error = Reject.error])

\* The catch block of the interval callback.
pollCatch(i, prev) ==
    Upd(i, prev, [prev EXCEPT
        !.status = "error",
        !.error = "Unable to get processing status, backend may be disconnected"])

\* The interval callback of startStatusPolling fires for job j and suspends at
\* `await getProcessingStatus(jobId)`.
PollTick(j) ==
    /\ ~MicrotaskPending
    /\ j \in intervals
    /\ BagCardinality(polls) < MaxInFlight
    /\ polls' = polls (+) One([job |-> j, stage |-> "status",
                               resp |-> getProcessingStatus(j)])
    /\ UNCHANGED <<recommenderVars, progressVars>>
    /\ UNCHANGED <<IS_MOCK_MODE, currentPage, uploadedFileData, inst, uploadedFile,
                   statusCheckInterval, intervals, uploads, submitted, jobs,
                   navTimers>>

\* An update that spreads the whole poll response over the snapshot.
statusUpdate_Spread(prev, status) ==
    [prev EXCEPT !.status = status.status,
                 !.progress = status.progress,
                 !.currentStep = status.currentStep,
                 !.error = status.error]

\* The first update of the interval callback: {...prev, progress, currentStep}.
statusUpdate(prev, status) ==
    [prev EXCEPT !.progress = status.progress,
                 !.currentStep = IF status.currentStep # ""
                                 THEN status.currentStep
                                 ELSE "Processing..."]

\* The callback resumes after `await getProcessingStatus(jobId)`: it applies the
\* status and, up to its next await or its end, handles completed and error.
StatusContinue(m, status) ==
    /\ \A u \in Jobs : uploads[u].phase # "loaded"
    /\ BagIn(m, polls)
    /\ m.stage = "status"
    /\ status \in settled(m.resp)
    /\ LET i == uploads[m.job].inst
           applied == Upd(i, uploadedFile, statusUpdate(uploadedFile, status))
       IN
        IF ~status.ok
        THEN /\ intervals' = clearCurrent(i)
             /\ uploadedFile' = pollCatch(i, uploadedFile)
             /\ polls' = polls (-) One(m)
        ELSE IF status.status = "completed"
        THEN /\ intervals' = clearCurrent(i)
             /\ uploadedFile' = applied
             /\ polls' = (polls (-) One(m))
                            (+) One([job |-> m.job, stage |-> "result",
                                     resp |-> getProcessingResult(m.job)])
        ELSE IF status.status = "error"
        THEN /\ intervals' = clearCurrent(i)
             /\ uploadedFile' = Upd(i, applied,
                    [applied EXCEPT !.status = "error",
                                    !.error = IF status.error # "" THEN status.error
                                              ELSE "Processing failed"])
             /\ polls' = polls (-) One(m)
        ELSE /\ uploadedFile' = applied
             /\ polls' = polls (-) One(m)
             /\ UNCHANGED intervals
    /\ UNCHANGED <<recommenderVars, progressVars>>
    /\ UNCHANGED <<IS_MOCK_MODE, currentPage, uploadedFileData, inst,
                   statusCheckInterval, uploads, submitted, jobs, navTimers>>

\* A completion branch that stores no data.
setUploadedFileData_Null(jobId, originalFile) == NoData

\* setUploadedFileData({jobId, name, size, ...}): the data handed to App.
setUploadedFileData(jobId, originalFile) ==
    [jobId |-> jobId, name |-> originalFile.name, size |-> originalFile.size]

\* The callback resumes after `await getProcessingResult(jobId)`: it marks the
\* job completed, hands the data to App and schedules the navigation; a failed
\* fetch lands in the catch block.
ResultContinue(m, result) ==
    /\ \A u \in Jobs : uploads[u].phase # "loaded"
    /\ BagIn(m, polls)
    /\ m.stage = "result"
    /\ result \in settled(m.resp)
    /\ polls' = polls (-) One(m)
    /\ LET i == uploads[m.job].inst
           originalFile == uploads[m.job].file
       IN
        IF result.ok
        THEN /\ uploadedFile' = Upd(i, uploadedFile,
                    [uploadedFile EXCEPT !.status = "completed", !.progress = 100])
             /\ uploadedFileData' = setUploadedFileData(m.job, originalFile)
             /\ navTimers' = navTimers + 1
             /\ UNCHANGED intervals
        ELSE /\ intervals' = clearCurrent(i)
             /\ uploadedFile' = pollCatch(i, uploadedFile)
             /\ UNCHANGED <<uploadedFileData, navTimers>>
    /\ UNCHANGED <<recommenderVars, progressVars>>
    /\ UNCHANGED <<IS_MOCK_MODE, currentPage, inst, statusCheckInterval, uploads,
                   submitted, jobs>>

(***************************************************************************)
(* The job table                                                           *)
(***************************************************************************)

\* startMockProcessing: the setTimeout(processNextStep, step.duration) fires.
MockProcessNextStep(j) ==
    /\ ~MicrotaskPending
    /\ IS_MOCK_MODE
    /\ jobs[j].timer
    /\ jobs' = [jobs EXCEPT ![j] = processNextStep(jobs[j])]
    /\ UNCHANGED <<recommenderVars, progressVars>>
    /\ UNCHANGED <<IS_MOCK_MODE, currentPage, uploadedFileData, inst, uploadedFile,
                   statusCheckInterval, intervals, uploads, submitted, polls,
                   navTimers>>

\* The backend works on a job: queued, then processing, then completed (the
\* result exists from then on) or error.
ServerAdvance(j) ==
    /\ ~MicrotaskPending
    /\ ~IS_MOCK_MODE
    /\ \/ /\ jobs[j].status = "queued"
          /\ jobs' = [jobs EXCEPT ![j].status = "processing", ![j].progress = 50,
                                  ![j].currentStep = "Transcribing"]
       \/ /\ jobs[j].status = "processing"
          /\ jobs' = [jobs EXCEPT ![j].status = "completed", ![j].progress = 100,
                                  ![j].result = TRUE]
       \/ /\ jobs[j].status = "processing"
          /\ \E e \in ServerErrors :
                jobs' = [jobs EXCEPT ![j].status = "error", ![j].error = e]
    /\ UNCHANGED <<recommenderVars, progressVars>>
    /\ UNCHANGED <<IS_MOCK_MODE, currentPage, uploadedFileData, inst, uploadedFile,
                   statusCheckInterval, intervals, uploads, submitted, polls,
                   navTimers>>

(***************************************************************************)
(* The recommender (ResultsPage)                                           *)
(*                                                                         *)
(* JavaScript numbers are held as integers.  A feature is held in the unit *)
(* of its last decimal digit in the library and the generators: bpm 1,     *)
(* average_pitch 1/10, pitch_range 1/10, key_stability 1/100, mode_major   *)
(* 1, note_density 1/10, rhythm_variety 1/10.  A scaled value, a distance  *)
(* and a similarity score are held in thousandths.  A file name is the     *)
(* sequence of its UTF-16 code units, which the feature generator reads.   *)
(***************************************************************************)

\* A maximum that is always its second argument.
Max_Second(a, b) == b

Max(a, b) == IF a > b THEN a ELSE b

\* A number in thousandths.
Thousandths(n) == n * 1000

\* The number NaN, which is also what arithmetic makes of undefined (a missing
\* property): a value apart from every number of the model.
NaN == -2147483647

RECURSIVE IsqrtIn(_, _, _)
IsqrtIn(n, lo, hi) ==
    IF lo = hi THEN lo
    ELSE LET mid == (lo + hi + 1) \div 2
         IN IF mid * mid <= n THEN IsqrtIn(n, mid, hi) ELSE IsqrtIn(n, lo, mid - 1)

\* Math.sqrt, rounded down to an integer.
Isqrt(n) == IsqrtIn(n, 0, 46340)

\* REAL_SONG_LIBRARY: title, artist and the seven feature columns (titles in
\* ASCII).
REAL_SONG_LIBRARY == <<
    [title |-> "Clair de Lune", artist |-> "Debussy",
     features |-> <<60, 650, 350, 95, 0, 7, 12>>],
    [title |-> "Gymnopedie No. 1", artist |-> "Satie",
     features |-> <<80, 500, 200, 90, 0, 5, 10>>],
    [title |-> "The Four Seasons: Spring", artist |-> "Vivaldi",
     features |-> <<130, 700, 450, 88, 1, 28, 35>>],
    [title |-> "Canon in D", artist |-> "Pachelbel",
     features |-> <<60, 550, 250, 98, 1, 10, 15>>],
    [title |-> "Fur Elise", artist |-> "Beethoven",
     features |-> <<130, 680, 380, 85, 0, 15, 22>>],
    [title |-> "Can't Stop The Feeling!", artist |-> "Timberlake",
     features |-> <<113, 560, 300, 70, 1, 25, 20>>],
    [title |-> "Imagine", artist |-> "Lennon",
     features |-> <<75, 520, 250, 80, 1, 10, 15>>],
    [title |-> "A Thousand Miles", artist |-> "Carlton",
     features |-> <<95, 600, 300, 78, 1, 18, 18>>],
    [title |-> "Happy", artist |-> "Pharrell Williams",
     features |-> <<160, 540, 280, 65, 1, 30, 25>>],
    [title |-> "Shape of You", artist |-> "Ed Sheeran",
     features |-> <<96, 500, 220, 72, 0, 22, 16>>],
    [title |-> "Blinding Lights", artist |-> "The Weeknd",
     features |-> <<171, 580, 350, 60, 0, 35, 30>>],
    [title |-> "Take Five", artist |-> "Dave Brubeck",
     features |-> <<170, 605, 450, 50, 0, 35, 40>>],
    [title |-> "So What", artist |-> "Miles Davis",
     features |-> <<140, 650, 550, 55, 1, 30, 45>>],
    [title |-> "Rhapsody in Blue", artist |-> "Gershwin",
     features |-> <<100, 720, 500, 65, 1, 28, 38>>],
    [title |-> "Strobe", artist |-> "deadmau5",
     features |-> <<128, 550, 300, 58, 0, 32, 32>>],
    [title |-> "Levels", artist |-> "Avicii",
     features |-> <<126, 620, 400, 62, 1, 38, 35>>],
    [title |-> "Aerodynamic", artist |-> "Daft Punk",
     features |-> <<120, 680, 420, 53, 0, 40, 42>>],
    [title |-> "Libertango", artist |-> "Piazzolla",
     features |-> <<120, 650, 350, 70, 0, 25, 30>>],
    [title |-> "Oye Como Va", artist |-> "Santana",
     features |-> <<128, 550, 300, 68, 1, 30, 35>>],
    [title |-> "The Girl from Ipanema", artist |-> "Jobim",
     features |-> <<115, 580, 250, 75, 1, 15, 20>>] >>

\* An array as the tuple of its elements (the same value, computed once).
Array(elements) == SubSeq(elements, 1, Len(elements))

\* recommendSongs: REAL_SONG_LIBRARY.map(song => song.slice(2)), a new array
\* made of the rows the library holds when the call is made.
libraryFeatures == Array([s \in 1..Len(songLibrary) |-> songLibrary[s].features])

\* data.reduce((acc, row) => acc + row[i], 0)
SumColumn(data, i) ==
    LET RECURSIVE Upto(_)
        Upto(r) == IF r = 0 THEN 0 ELSE Upto(r - 1) + data[r][i]
    IN Upto(Len(data))

\* data.reduce((acc, row) => acc + Math.pow(row[i] - mean[i], 2), 0), with every
\* term multiplied by the square of data.length: (length * row[i] - sum)^2.
SumSquares(data, i, sum) ==
    LET RECURSIVE Upto(_)
        Upto(r) == IF r = 0 THEN 0
                   ELSE Upto(r - 1) + (Len(data) * data[r][i] - sum) * (Len(data) * data[r][i] - sum)
    IN Upto(Len(data))

\* (val - mean) / std in thousandths, or 0 for a constant column.  The mean is
\* held multiplied by length and std multiplied by 10 * length, so that both
\* are integers.
ScaleValue(val, mean, std, length) ==
    IF std = 0 THEN 0
    ELSE IF val = NaN THEN NaN
    ELSE (Thousandths(length * val - mean) * 10) \div std

\* standardScale(data): mean[i] (times length), std[i] (times 10 * length) and
\* the scaled rows.
standardScale(data) ==
    LET numFeatures == Len(data[1])
        mean == Array([i \in 1..numFeatures |-> SumColumn(data, i)])
        std == Array([i \in 1..numFeatures |->
                        Isqrt((SumSquares(data, i, mean[i]) \div Len(data)) * 100)])
    IN [scaled |-> Array([r \in 1..Len(data) |->
                      Array([i \in 1..numFeatures |->
                          ScaleValue(data[r][i], mean[i], std[i], Len(data))])]),
        mean |-> mean,
        std |-> std]

\* applyScaling that leaves the point as it is.
applyScaling_Raw(point, mean, std) == point

\* applyScaling(point, mean, std), for the scaler of the library.
applyScaling(point, mean, std) ==
    Array([i \in 1..Len(point) |->
              ScaleValue(point[i], mean[i], std[i], Len(REAL_SONG_LIBRARY))])

\* euclideanDistance(a, b)
euclideanDistance(a, b) ==
    LET RECURSIVE Upto(_)
        Upto(i) == IF i = 0 THEN 0
                   ELSE Upto(i - 1) + (a[i] - b[i]) * (a[i] - b[i])
    IN IF \E i \in 1..Len(a) : a[i] = NaN \/ b[i] = NaN
       THEN NaN
       ELSE Isqrt(Upto(Len(a)))

\* A sort that leaves the array as it is.
sort_None(distances) == distances

\* An ascending sort that puts the later of two equal elements first.
RECURSIVE sort_LaterFirst(_)
sort_LaterFirst(distances) ==
    IF distances = <<>> THEN <<>>
    ELSE LET last == distances[Len(distances)]
             rest == sort_LaterFirst(SubSeq(distances, 1, Len(distances) - 1))
             p == Cardinality({j \in 1..Len(rest) : rest[j].distance < last.distance})
         IN SubSeq(rest, 1, p) \o <<last>> \o SubSeq(rest, p + 1, Len(rest))

\* (a, b) => a.distance - b.distance as sort reads it: a result of NaN counts
\* as 0.
compareFn(a, b) ==
    IF a.distance = NaN \/ b.distance = NaN THEN 0 ELSE a.distance - b.distance

\* distances.sort((a, b) => a.distance - b.distance): ascending and stable.
RECURSIVE sort(_)
sort(distances) ==
    IF distances = <<>> THEN <<>>
    ELSE LET last == distances[Len(distances)]
             rest == sort(SubSeq(distances, 1, Len(distances) - 1))
             p == Cardinality({j \in 1..Len(rest) : compareFn(rest[j], last) <= 0})
         IN SubSeq(rest, 1, p) \o <<last>> \o SubSeq(rest, p + 1, Len(rest))

\* Array.prototype.slice(0, end) for end >= 0.
slice(array, end) == SubSeq(array, 1, Min(end, Len(array)))

\* recommendSongs, up to the sort: the {index, distance} objects of the
\* library's rows, closest first.
sortedDistances(features) ==
    LET scaler == standardScale(libraryFeatures)
        inputVector == <<features.bpm, features.average_pitch, features.pitch_range,
                         features.key_stability, features.mode_major,
                         features.note_density, features.rhythm_variety>>
        scaledInput == applyScaling(inputVector, scaler.mean, scaler.std)
        distances == Array([index \in 1..Len(scaler.scaled) |->
                        [index |-> index,
                         distance |-> euclideanDistance(scaledInput, scaler.scaled[index])]])
    IN sort(distances)

\* recommendSongs(inputFeatures, k)
recommendSongs(features, kk) ==
    LET top == slice(sortedDistances(features), kk)
    IN Array([r \in 1..Len(top) |->
          [title |-> songLibrary[top[r].index].title,
           artist |-> songLibrary[top[r].index].artist,
           similarity_score |-> IF top[r].distance = NaN THEN NaN
                                ELSE Max(0, Thousandths(100) - top[r].distance * 8)]])

\* A recommendSongs that sorts REAL_SONG_LIBRARY itself.
libraryAfterCall_Sorted(features) ==
    LET sorted == sortedDistances(features)
    IN Array([r \in 1..Len(sorted) |-> songLibrary[sorted[r].index]])

\* REAL_SONG_LIBRARY after recommendSongs(features, k): the call reads the
\* array with map and by index, and sorts `distances`, an array of its own; it
\* writes no element of the library.
libraryAfterCall(features) == songLibrary

\* String.prototype.toLowerCase on code units (ASCII letters).
toLowerCase(str) == [c \in 1..Len(str) |-> IF str[c] >= 65 /\ str[c] <= 90
                                          THEN str[c] + 32 ELSE str[c]]

\* String.prototype.includes
includes(str, sub) ==
    \E c \in 1..(Len(str) - Len(sub) + 1) : SubSeq(str, c, c + Len(sub) - 1) = sub

\* fileName.split('').reduce((acc, char) => acc + char.charCodeAt(0), 0)
CharCodeSum(str) ==
    LET RECURSIVE Upto(_)
        Upto(c) == IF c = 0 THEN 0 ELSE Upto(c - 1) + str[c]
    IN Upto(Len(str))

\* generateMockFeatures(fileName, format); 'piano', 'classical', 'edm',
\* 'electronic' and 'jazz' as code units.
generateMockFeatures(fileName, format) ==
    LET seed == CharCodeSum(fileName) % 100
        lower == toLowerCase(fileName)
        isPiano == \/ includes(lower, <<112, 105, 97, 110, 111>>)
                   \/ includes(lower, <<99, 108, 97, 115, 115, 105, 99, 97, 108>>)
        isElectronic == \/ includes(lower, <<101, 100, 109>>)
                        \/ includes(lower, <<101, 108, 101, 99, 116, 114, 111, 110, 105, 99>>)
        isJazz == includes(lower, <<106, 97, 122, 122>>)
    IN IF isPiano
       THEN [bpm |-> 60 + (seed % 40),
             average_pitch |-> 10 * (60 + (seed % 15)),
             pitch_range |-> 10 * (20 + (seed % 20)),
             key_stability |-> 85 + (seed % 15),
             mode_major |-> seed % 2,
             note_density |-> 5 + (seed % 20),
             rhythm_variety |-> 10 + (seed % 15)]
       ELSE IF isElectronic
       THEN [bpm |-> 120 + (seed % 50),
             average_pitch |-> 10 * (55 + (seed % 15)),
             pitch_range |-> 10 * (30 + (seed % 20)),
             key_stability |-> 55 + (seed % 15),
             mode_major |-> 1,
             note_density |-> 30 + (seed % 15),
             rhythm_variety |-> 30 + (seed % 20)]
       ELSE IF isJazz
       THEN [bpm |-> 100 + (seed % 70),
             average_pitch |-> 10 * (60 + (seed % 15)),
             pitch_range |-> 10 * (40 + (seed % 20)),
             key_stability |-> 50 + (seed % 20),
             mode_major |-> seed % 2,
             note_density |-> 25 + (seed % 20),
             rhythm_variety |-> 35 + (seed % 15)]
       ELSE [bpm |-> 90 + (seed % 40),
             average_pitch |-> 10 * (52 + (seed % 12)),
             pitch_range |-> 10 * (22 + (seed % 15)),
             key_stability |-> 70 + (seed % 15),
             mode_major |-> 1,
             note_density |-> 15 + (seed % 15),
             rhythm_variety |-> 18 + (seed % 12)]

\* ResultsPage: recommendSongs(features, 4).
TopK == 4

\* No call of recommendSongs yet, no ResultsPage yet.
NoFeatures == [bpm |-> 0, average_pitch |-> 0, pitch_range |-> 0,
               key_stability |-> 0, mode_major |-> 0, note_density |-> 0,
               rhythm_variety |-> 0]

NoAnalysis == [bpm |-> 0, avgPitch |-> 0, pitchRange |-> 0, keyStability |-> 0,
               modeMajor |-> 0, noteDensity |-> 0, rhythmVariety |-> 0]

NoProps == [name |-> <<>>, format |-> "", analysis |-> NoAnalysis]

\* The MusicFeatures with the values of a library row.
RowFeatures(row) ==
    [bpm |-> row[1], average_pitch |-> row[2], pitch_range |-> row[3],
     key_stability |-> row[4], mode_major |-> row[5], note_density |-> row[6],
     rhythm_variety |-> row[7]]

\* Uploaded files as ResultsPage sees them (name and format): a.mp3, b.mp3,
\* song.wav, jazz.wav, EDM.mp3 and piano.mp3.
ResultFiles ==
    {[name |-> <<97, 46, 109, 112, 51>>, format |-> "mp3"],
     [name |-> <<98, 46, 109, 112, 51>>, format |-> "mp3"],
     [name |-> <<115, 111, 110, 103, 46, 119, 97, 118>>, format |-> "wav"],
     [name |-> <<106, 97, 122, 122, 46, 119, 97, 118>>, format |-> "wav"],
     [name |-> <<69, 68, 77, 46, 109, 112, 51>>, format |-> "mp3"],
     [name |-> <<112, 105, 97, 110, 111, 46, 109, 112, 51>>, format |-> "mp3"]}

\* createMockResult: the analysis of every simulated result.
MockAnalysis == [bpm |-> 120, avgPitch |-> 600, pitchRange |-> 300,
                 keyStability |-> 85, modeMajor |-> 1, noteDensity |-> 25,
                 rhythmVariety |-> 20]

\* The analyses a result can carry: the simulator's, and over HTTP what the
\* backend measured (here the feature values of the library's songs).
Analyses ==
    {MockAnalysis} \cup
    {[bpm |-> row[1], avgPitch |-> row[2], pitchRange |-> row[3],
      keyStability |-> row[4], modeMajor |-> row[5], noteDensity |-> row[6],
      rhythmVariety |-> row[7]] :
         row \in {REAL_SONG_LIBRARY[s].features : s \in 1..Len(REAL_SONG_LIBRARY)}}

\* What setUploadedFileData hands to App and App to ResultsPage.
FileDatas ==
    {[name |-> f.name, format |-> f.format, analysis |-> a] :
        f \in ResultFiles, a \in Analyses}

\* The features halfway between two rows (rows whose sums are even).
Midway(a, b) ==
    [bpm |-> (a[1] + b[1]) \div 2, average_pitch |-> (a[2] + b[2]) \div 2,
     pitch_range |-> (a[3] + b[3]) \div 2, key_stability |-> (a[4] + b[4]) \div 2,
     mode_major |-> (a[5] + b[5]) \div 2, note_density |-> (a[6] + b[6]) \div 2,
     rhythm_variety |-> (a[7] + b[7]) \div 2]

\* Queries at the same distance from two library entries: halfway between
\* Clair de Lune and Fur Elise (the two nearest entries), and halfway between
\* The Four Seasons: Spring and Canon in D (fourth and fifth nearest).
TieQueries ==
    {Midway(REAL_SONG_LIBRARY[1].features, REAL_SONG_LIBRARY[5].features),
     Midway(REAL_SONG_LIBRARY[3].features, REAL_SONG_LIBRARY[4].features)}

\* The queries recommendSongs is called with: the raw features of every
\* library entry, the generated features of the files, one far from every
\* song, and the ones with ties.
Queries ==
    {RowFeatures(REAL_SONG_LIBRARY[s].features) : s \in 1..Len(REAL_SONG_LIBRARY)}
    \cup {generateMockFeatures(f.name, f.format) : f \in ResultFiles}
    \cup {[bpm |-> 300, average_pitch |-> 1000, pitch_range |-> 900,
           key_stability |-> 0, mode_major |-> 1, note_density |-> 90,
           rhythm_variety |-> 90]}
    \cup TieQueries

\* Queries with a feature that is missing or NaN: the features of the first
\* library rows with one of the seven properties replaced.
InvalidInputRows == 3

InvalidQueries ==
    {RowFeatures([REAL_SONG_LIBRARY[s].features EXCEPT ![i] = NaN]) :
        s \in 1..InvalidInputRows, i \in 1..7}

\* The first call recommendSongs(inputFeatures, k) of a run (the function
\* keeps no state, so every call is like the first).
CallRecommendSongs(features, kk) ==
    /\ inputFeatures = NoFeatures
    /\ inputFeatures' = features
    /\ k' = kk
    /\ recommendations' = recommendSongs(features, kk)
    /\ songLibrary' = libraryAfterCall(features)
    /\ UNCHANGED <<fileData, musicRecommendations>>
    /\ UNCHANGED <<controllerVars, progressVars, pipelineVars, scalerVars,
                   pageVars, downloadVars>>

\* A later call with the features and k of the call before it.
CallRecommendSongsAgain ==
    /\ inputFeatures # NoFeatures
    /\ recommendations' = recommendSongs(inputFeatures, k)
    /\ songLibrary' = libraryAfterCall(inputFeatures)
    /\ UNCHANGED <<fileData, musicRecommendations, inputFeatures, k>>
    /\ UNCHANGED <<controllerVars, progressVars, pipelineVars, scalerVars,
                   pageVars, downloadVars>>

\* App renders ResultsPage with fileData: the musicRecommendations memo is
\* computed (it is a function of fileData.name and fileData.format, its
\* dependencies).
ResultsPageRender(fd) ==
    /\ fileData' = fd
    /\ LET features == generateMockFeatures(fd.name, fd.format)
           recs == recommendSongs(features, TopK)
       IN /\ inputFeatures' = features
          /\ k' = TopK
          /\ recommendations' = recs
          /\ musicRecommendations' = recs
          /\ songLibrary' = libraryAfterCall(features)
    /\ UNCHANGED <<controllerVars, progressVars, pipelineVars, scalerVars,
                   pageVars, downloadVars>>

(***************************************************************************)
(* The scaler on any library                                               *)
(*                                                                         *)
(* Where the rounding of a JavaScript number matters, a number is held as  *)
(* the binary floating-point value m * 2^e, with |m| a mantissa of         *)
(* MantissaBits bits (or m = 0).  Every operation gives the exact result   *)
(* rounded to the nearest such value, ties to the even mantissa, as        *)
(* IEEE 754 arithmetic does; a JavaScript number has a mantissa of 53      *)
(* bits.  The exponent is not bounded.                                     *)
(***************************************************************************)

MantissaBits == 11

Zero == [m |-> 0, e |-> 0]

Abs(n) == IF n < 0 THEN -n ELSE n

\* The number of bits of n > 0.
RECURSIVE BitLength(_)
BitLength(n) == IF n = 0 THEN 0 ELSE 1 + BitLength(n \div 2)

\* The exact value M * 2^e, rounded to a number.
FloatRound(M, e) ==
    IF M = 0 THEN Zero
    ELSE LET sign == IF M > 0 THEN 1 ELSE -1
             bits == BitLength(Abs(M))
         IN IF bits <= MantissaBits
            THEN [m |-> M * 2^(MantissaBits - bits), e |-> e - (MantissaBits - bits)]
            ELSE LET shift == bits - MantissaBits
                     q == Abs(M) \div 2^shift
                     r == Abs(M) % 2^shift
                     half == 2^(shift - 1)
                     up == IF r > half \/ (r = half /\ q % 2 = 1) THEN q + 1 ELSE q
                 IN IF up = 2^MantissaBits
                    THEN [m |-> sign * 2^(MantissaBits - 1), e |-> e + shift + 1]
                    ELSE [m |-> sign * up, e |-> e + shift]

\* The number of an integer literal, and of a decimal literal num / den.
Float(n) == FloatRound(n, 0)

\* a + b
FloatAdd(a, b) ==
    IF a.m = 0 THEN b
    ELSE IF b.m = 0 THEN a
    ELSE LET hi == IF a.e >= b.e THEN a ELSE b
             lo == IF a.e >= b.e THEN b ELSE a
         IN IF hi.e - lo.e > MantissaBits + 1
            THEN hi
            ELSE FloatRound(hi.m * 2^(hi.e - lo.e) + lo.m, lo.e)

\* a - b
FloatSub(a, b) == FloatAdd(a, [m |-> -b.m, e |-> b.e])

\* a * b
FloatMul(a, b) == FloatRound(a.m * b.m, a.e + b.e)

\* a / b for b # 0: the quotient with two more bits than the mantissa and
\* one that tells whether there is a remainder.
FloatDiv(a, b) ==
    IF a.m = 0 THEN Zero
    ELSE LET sign == IF (a.m > 0) = (b.m > 0) THEN 1 ELSE -1
             num == Abs(a.m) * 2^(MantissaBits + 2)
             q == num \div Abs(b.m)
             sticky == IF num % Abs(b.m) = 0 THEN 0 ELSE 1
         IN FloatRound(sign * (2 * q + sticky), a.e - b.e - (MantissaBits + 2) - 1)

\* Math.sqrt(a) for a >= 0.
FloatSqrt(a) ==
    IF a.m = 0 THEN Zero
    ELSE LET odd == a.e % 2 = 1
             m == IF odd THEN 2 * a.m ELSE a.m
             e == IF odd THEN a.e - 1 ELSE a.e
             t == (MantissaBits \div 2) + 3
             X == m * 2^(2 * t)
             root == Isqrt(X)
             sticky == IF root * root = X THEN 0 ELSE 1
         IN FloatRound(2 * root + sticky, ((e - 2 * t) \div 2) - 1)

\* The decimal literal num / den.
Decimal(num, den) == FloatDiv(Float(num), Float(den))

\* data.reduce((acc, row) => acc + row[i], 0)
FloatSumColumn(rows, i) ==
    LET RECURSIVE Upto(_)
        Upto(r) == IF r = 0 THEN Zero ELSE FloatAdd(Upto(r - 1), rows[r][i])
    IN Upto(Len(rows))

\* data.reduce((acc, row) => acc + Math.pow(row[i] - mean[i], 2), 0)
FloatSumSquares(rows, i, mean) ==
    LET RECURSIVE Upto(_)
        Upto(r) == IF r = 0 THEN Zero
                   ELSE LET diff == FloatSub(rows[r][i], mean)
                        IN FloatAdd(Upto(r - 1), FloatMul(diff, diff))
    IN Upto(Len(rows))

\* std[i] === 0 ? 0 : (val - mean[i]) / std[i]
FloatScaleValue(val, mean, std) ==
    IF std = Zero THEN Zero ELSE FloatDiv(FloatSub(val, mean), std)

\* standardScale(data) on numbers with their rounding.
standardScaleFloat(rows) ==
    LET numFeatures == Len(rows[1])
        length == Float(Len(rows))
        mean == Array([i \in 1..numFeatures |->
                         FloatDiv(FloatSumColumn(rows, i), length)])
        std == Array([i \in 1..numFeatures |->
                        FloatSqrt(FloatDiv(FloatSumSquares(rows, i, mean[i]), length))])
    IN [scaled |-> Array([r \in 1..Len(rows) |->
                      Array([i \in 1..numFeatures |->
                          FloatScaleValue(rows[r][i], mean[i], std[i])])]),
        mean |-> mean,
        std |-> std]

\* applyScaling(point, mean, std) on numbers with their rounding.
applyScalingFloat(p, mean, std) ==
    Array([i \in 1..Len(p) |-> FloatScaleValue(p[i], mean[i], std[i])])

\* No call of standardScale yet.
NoScaler == [scaled |-> <<>>, mean |-> <<>>, std |-> <<>>]

\* The rows of the libraries tried.
MaxRows == 3

\* Feature values as the library writes them: 0.1, 0.5, 0.7, 0.95, 1, 2.5, 60
\* and 120.
FeatureValues ==
    {Decimal(1, 10), Decimal(5, 10), Decimal(7, 10), Decimal(95, 100), Float(1),
     Decimal(25, 10), Float(60), Float(120)}

\* Libraries of two columns: the first has the same value in every row, the
\* second the row number.
ConstantColumnLibraries ==
    {[r \in 1..length |-> <<value, Float(r)>>] :
        value \in FeatureValues, length \in 1..MaxRows}

\* The first call standardScale(data) of a run.
CallStandardScale(rows) ==
    /\ scalerData = <<>>
    /\ scalerData' = rows
    /\ fitted' = standardScaleFloat(rows)
    /\ UNCHANGED <<scalerPoint, scaledPoint>>
    /\ UNCHANGED <<fileData, musicRecommendations, inputFeatures, k,
                   recommendations, songLibrary>>
    /\ UNCHANGED <<controllerVars, progressVars, pipelineVars, pageVars,
                   downloadVars>>

\* The first call applyScaling(point, mean, std) with the mean and std that
\* standardScale returned.
CallApplyScaling(p) ==
    /\ scalerData # <<>>
    /\ scalerPoint = <<>>
    /\ scalerPoint' = p
    /\ scaledPoint' = applyScalingFloat(p, fitted.mean, fitted.std)
    /\ UNCHANGED <<scalerData, fitted>>
    /\ UNCHANGED <<fileData, musicRecommendations, inputFeatures, k,
                   recommendations, songLibrary>>
    /\ UNCHANGED <<controllerVars, progressVars, pipelineVars, pageVars,
                   downloadVars>>

(***************************************************************************)
(* The requests of the transport (scoreApi.ts)                             *)
(***************************************************************************)

\* A URL of a generated file: /api/download/<jobId>/<key>.
Url(j, key) == [jobId |-> j, key |-> key]

\* downloadUrl: '#', no URL from the API.
NoUrl == [jobId |-> 0, key |-> "#"]

\* A request sent by fetch or XMLHttpRequest.
Request(method, path, j, key) ==
    [method |-> method, path |-> path, jobId |-> j, key |-> key]

\* What each exported function sends over the network when it is called.
uploadFileRequests ==
    IF IS_MOCK_MODE THEN {} ELSE {Request("POST", "/api/upload", 0, "")}

getProcessingStatusRequests(j) ==
    IF IS_MOCK_MODE THEN {} ELSE {Request("GET", "/api/status", j, "")}

getProcessingResultRequests(j) ==
    IF IS_MOCK_MODE THEN {} ELSE {Request("GET", "/api/result", j, "")}

\* downloadFile, cancelJob and healthCheck do not read IS_MOCK_MODE.
downloadFileRequests(url) == {Request("GET", "/api/download", url.jobId, url.key)}

cancelJobRequests(j) == {Request("POST", "/api/cancel", j, "")}

healthCheckRequests == {Request("GET", "/api/health", 0, "")}

\* createMockResult / ProcessingResult.outputs: the keys that can have a URL.
OutputKeys == {"midi", "pdf", "lilypond", "vocals", "drums"}

\* A call of an exported function of scoreApi.ts, for the requests it sends
\* (what it answers is the subject of the sections above).
CallApi(requests) ==
    /\ network' = network \cup requests
    /\ UNCHANGED <<controllerVars, progressVars, pipelineVars, pageVars,
                   downloaded>>
    /\ UNCHANGED <<fileData, musicRecommendations, inputFeatures, k,
                   recommendations, songLibrary, scalerVars>>

(***************************************************************************)
(* The processing options and the downloads of ResultsPage                 *)
(***************************************************************************)

\* Object.values(tracks) and Object.values(outputs), in the order of their
\* keys.
TrackIds == <<"vocal", "piano", "drums", "chords", "beat", "vocalContour">>

OutputIds == <<"midi", "synthAudio", "pdf", "lilypond">>

\* The cards the user clicks on.
ClickedTracks == {"vocal"}

ClickedOutputs == {"midi", "pdf", "lilypond"}

\* The set of the elements of an array.
Range(array) == {array[i] : i \in 1..Len(array)}

\* useState initial values, and handleResetSelection.
InitialTracks == [id \in Range(TrackIds) |-> [enabled |-> FALSE, status |-> "idle"]]

InitialOutputs ==
    [id \in Range(OutputIds) |-> [enabled |-> id = "midi", status |-> "idle"]]

\* useState initial value of pipelineStatus.
InitialPipelineStatus ==
    [upload |-> "done", convert |-> "running", omnizart |-> "not-started",
     synthesize |-> "not-started", engrave |-> "not-started"]

\* No Start Processing is under way.
NoProcessing == [enabledTracks |-> <<>>, enabledOutputs |-> <<>>,
                 tracksGenerating |-> 0, processIndex |-> 0,
                 outputsStarted |-> FALSE, outputsGenerating |-> 0,
                 outputsDone |-> 0, finishTimer |-> FALSE]

\* No download yet.
NoDownload == [format |-> "", downloadUrl |-> NoUrl, api |-> "none",
               delivered |-> "none", uncaught |-> FALSE]

\* Clicks on Start Processing in a run.
MaxClicks == 2

\* An enabled-filter that keeps every option.
Enabled_All(options, ids) == ids

\* Object.values(options).filter(o => o.enabled), as ids.
Enabled(options, ids) == SelectSeq(ids, LAMBDA id : options[id].enabled)

\* hasSelection of ProcessingOptionsSection.
hasSelection ==
    \/ \E id \in Range(TrackIds) : tracks[id].enabled
    \/ \E id \in Range(OutputIds) : outputs[id].enabled

\* trackNames
trackNames ==
    [id \in Range(TrackIds) |->
        CASE id = "vocal" -> "vocals"
          [] id = "vocalContour" -> "vocal_contour"
          [] OTHER -> id]

\* fileNames[output.id].format
outputFormat ==
    [id \in Range(OutputIds) |->
        CASE id = "midi" -> "MIDI"
          [] id = "synthAudio" -> "WAV"
          [] id = "pdf" -> "PDF"
          [] OTHER -> "LilyPond"]

\* apiTrackUrl || '#' and apiOutputUrl || '#': the simulated result has a URL
\* under every key of OutputKeys; over HTTP fileData.outputs has a URL under
\* the key or it has not (every key is optional).  No key is read for
\* synthAudio, and stems has none for piano, chords, beat or vocal_contour.
DownloadUrls(key) ==
    IF key \notin OutputKeys THEN {NoUrl}
    ELSE IF IS_MOCK_MODE THEN {Url(1, key)}
    ELSE {NoUrl, Url(1, key)}

\* handleTrackToggle(id); a card that is generating ignores the click.
handleTrackToggle(id) ==
    /\ tracks[id].status # "generating"
    /\ tracks' = [tracks EXCEPT ![id].enabled = ~tracks[id].enabled]
    /\ UNCHANGED <<outputs, isProcessing, generatedFiles, processing, startClicks>>
    /\ UNCHANGED <<controllerVars, progressVars, pipelineVars, downloadVars>>
    /\ UNCHANGED <<fileData, musicRecommendations, inputFeatures, k,
                   recommendations, songLibrary, scalerVars>>

\* handleOutputToggle(id)
handleOutputToggle(id) ==
    /\ outputs[id].status # "generating"
    /\ outputs' = [outputs EXCEPT ![id].enabled = ~outputs[id].enabled]
    /\ UNCHANGED <<tracks, isProcessing, generatedFiles, processing, startClicks>>
    /\ UNCHANGED <<controllerVars, progressVars, pipelineVars, downloadVars>>
    /\ UNCHANGED <<fileData, musicRecommendations, inputFeatures, k,
                   recommendations, songLibrary, scalerVars>>

\* handleResetSelection; the button is disabled while isProcessing.
handleResetSelection ==
    /\ ~isProcessing
    /\ tracks' = InitialTracks
    /\ outputs' = InitialOutputs
    /\ UNCHANGED <<isProcessing, generatedFiles, processing, startClicks>>
    /\ UNCHANGED <<controllerVars, progressVars, pipelineVars, downloadVars>>
    /\ UNCHANGED <<fileData, musicRecommendations, inputFeatures, k,
                   recommendations, songLibrary, scalerVars>>

\* handleStartProcessing; the button is disabled without a selection and
\* while isProcessing.  The closure keeps enabledTracks and enabledOutputs;
\* without tracks processOutputs is called at once.
handleStartProcessing ==
    /\ hasSelection
    /\ ~isProcessing
    /\ startClicks < MaxClicks
    /\ startClicks' = startClicks + 1
    /\ isProcessing' = TRUE
    /\ pipelineStatus' = [pipelineStatus EXCEPT !.synthesize = "running"]
    /\ LET enabledTracks == Enabled(tracks, TrackIds)
           enabledOutputs == Enabled(outputs, OutputIds)
       IN processing' =
            [NoProcessing EXCEPT
                !.enabledTracks = enabledTracks,
                !.enabledOutputs = enabledOutputs,
                !.outputsStarted = enabledTracks = <<>>,
                !.finishTimer = enabledTracks = <<>> /\ enabledOutputs = <<>>]
    /\ UNCHANGED <<tracks, outputs, generatedFiles>>
    /\ UNCHANGED <<pipelineTimers, analysisComplete>>
    /\ UNCHANGED <<controllerVars, progressVars, downloadVars>>
    /\ UNCHANGED <<fileData, musicRecommendations, inputFeatures, k,
                   recommendations, songLibrary, scalerVars>>

\* The first timer of the next enabled track (index * 500 ms): its status
\* becomes 'generating' and its second timer is set.
TrackGeneratingTimer ==
    /\ processing.tracksGenerating < Len(processing.enabledTracks)
    /\ LET id == processing.enabledTracks[processing.tracksGenerating + 1]
       IN tracks' = [tracks EXCEPT ![id].status = "generating"]
    /\ processing' = [processing EXCEPT !.tracksGenerating = @ + 1]
    /\ UNCHANGED <<outputs, isProcessing, generatedFiles, startClicks>>
    /\ UNCHANGED <<controllerVars, progressVars, pipelineVars, downloadVars>>
    /\ UNCHANGED <<fileData, musicRecommendations, inputFeatures, k,
                   recommendations, songLibrary, scalerVars>>

\* A test that counts all the tracks of the page, not the enabled ones.
tracksFinished_AllTracks(processIndex, enabledTracks) ==
    processIndex = Len(TrackIds)

\* A test that is met by the first track that is done.
tracksFinished_First(processIndex, enabledTracks) == processIndex >= 1

\* processIndex === enabledTracks.length
tracksFinished(processIndex, enabledTracks) == processIndex = Len(enabledTracks)

\* The second timer of a track (2000 + index * 1000 ms later; they fire in
\* the order of the indexes): status 'success', its file is appended, and
\* after the last track processOutputs is called.
TrackDoneTimer(downloadUrl) ==
    /\ processing.processIndex < processing.tracksGenerating
    /\ LET id == processing.enabledTracks[processing.processIndex + 1]
           last == tracksFinished(processing.processIndex + 1,
                                  processing.enabledTracks)
       IN /\ downloadUrl \in DownloadUrls(trackNames[id])
          /\ tracks' = [tracks EXCEPT ![id].status = "success"]
          /\ generatedFiles' = Append(generatedFiles,
                [id |-> id, kind |-> "track", format |-> "WAV",
                 downloadUrl |-> downloadUrl])
          /\ processing' =
                [processing EXCEPT
                    !.processIndex = @ + 1,
                    !.outputsStarted = last,
                    !.finishTimer = last /\ processing.enabledOutputs = <<>>]
    /\ UNCHANGED <<outputs, isProcessing, startClicks>>
    /\ UNCHANGED <<controllerVars, progressVars, pipelineVars, downloadVars>>
    /\ UNCHANGED <<fileData, musicRecommendations, inputFeatures, k,
                   recommendations, songLibrary, scalerVars>>

\* processOutputs: the first timer of the next enabled output.
OutputGeneratingTimer ==
    /\ processing.outputsStarted
    /\ processing.outputsGenerating < Len(processing.enabledOutputs)
    /\ LET id == processing.enabledOutputs[processing.outputsGenerating + 1]
       IN outputs' = [outputs EXCEPT ![id].status = "generating"]
    /\ processing' = [processing EXCEPT !.outputsGenerating = @ + 1]
    /\ UNCHANGED <<tracks, isProcessing, generatedFiles, startClicks>>
    /\ UNCHANGED <<controllerVars, progressVars, pipelineVars, downloadVars>>
    /\ UNCHANGED <<fileData, musicRecommendations, inputFeatures, k,
                   recommendations, songLibrary, scalerVars>>

\* processOutputs: the second timer of an output: status 'success', its file
\* is appended, and after the last output the finishing timer is set.
OutputDoneTimer(downloadUrl) ==
    /\ processing.outputsDone < processing.outputsGenerating
    /\ LET id == processing.enabledOutputs[processing.outputsDone + 1]
       IN /\ downloadUrl \in DownloadUrls(id)
          /\ outputs' = [outputs EXCEPT ![id].status = "success"]
          /\ generatedFiles' = Append(generatedFiles,
                [id |-> id, kind |-> "output", format |-> outputFormat[id],
                 downloadUrl |-> downloadUrl])
          /\ processing' =
                [processing EXCEPT
                    !.outputsDone = @ + 1,
                    !.finishTimer =
                        processing.outputsDone + 1 = Len(processing.enabledOutputs)]
    /\ UNCHANGED <<tracks, isProcessing, startClicks>>
    /\ UNCHANGED <<controllerVars, progressVars, pipelineVars, downloadVars>>
    /\ UNCHANGED <<fileData, musicRecommendations, inputFeatures, k,
                   recommendations, songLibrary, scalerVars>>

\* processOutputs: setTimeout(() => setIsProcessing(false), ...), which also
\* sets synthesize to done, and engrave with it when there were outputs.
FinishTimer ==
    /\ processing.finishTimer
    /\ isProcessing' = FALSE
    /\ pipelineStatus' =
          IF processing.enabledOutputs = <<>>
          THEN [pipelineStatus EXCEPT !.synthesize = "done"]
          ELSE [pipelineStatus EXCEPT !.synthesize = "done", !.engrave = "done"]
    /\ processing' = NoProcessing
    /\ UNCHANGED <<tracks, outputs, generatedFiles, startClicks>>
    /\ UNCHANGED <<pipelineTimers, analysisComplete>>
    /\ UNCHANGED <<controllerVars, progressVars, downloadVars>>
    /\ UNCHANGED <<fileData, musicRecommendations, inputFeatures, k,
                   recommendations, songLibrary, scalerVars>>

\* The effect's timer1 (3000 ms after the page is mounted).
timer1 ==
    /\ "timer1" \in pipelineTimers
    /\ pipelineTimers' = pipelineTimers \ {"timer1"}
    /\ pipelineStatus' =
          [upload |-> "done", convert |-> "done", omnizart |-> "running",
           synthesize |-> "not-started", engrave |-> "not-started"]
    /\ UNCHANGED analysisComplete
    /\ UNCHANGED <<controllerVars, progressVars, pageVars, downloadVars>>
    /\ UNCHANGED <<fileData, musicRecommendations, inputFeatures, k,
                   recommendations, songLibrary, scalerVars>>

\* The effect's timer2 (6000 ms; it fires after timer1).
timer2 ==
    /\ "timer1" \notin pipelineTimers
    /\ "timer2" \in pipelineTimers
    /\ pipelineTimers' = pipelineTimers \ {"timer2"}
    /\ pipelineStatus' =
          [upload |-> "done", convert |-> "done", omnizart |-> "done",
           synthesize |-> "not-started", engrave |-> "not-started"]
    /\ analysisComplete' = TRUE
    /\ UNCHANGED <<controllerVars, progressVars, pageVars, downloadVars>>
    /\ UNCHANGED <<fileData, musicRecommendations, inputFeatures, k,
                   recommendations, songLibrary, scalerVars>>

\* How apiDownloadFile can end: the file is fetched and saved, or fetch
\* rejects or answers !response.ok and downloadFile throws.
ApiOutcomes == {"ok", "failed"}

\* handleDownload, the stand-in built for a format.  The PDF branch reads
\* streamLength and stream, which no scope declares: a ReferenceError.
StandIn(format) == IF format = "PDF" THEN "ReferenceError" ELSE "blob"

\* DownloadsSection.handleDownload(file), the first download of a run, for a
\* file of the list; api tells how apiDownloadFile ends when it is called.
handleDownload(file, api) ==
    /\ downloaded = NoDownload
    /\ file \in Range(generatedFiles)
    /\ api \in ApiOutcomes
    /\ IF file.downloadUrl # NoUrl
       THEN /\ network' = network \cup downloadFileRequests(file.downloadUrl)
            /\ downloaded' =
                 IF api = "ok"
                 THEN [format |-> file.format, downloadUrl |-> file.downloadUrl,
                       api |-> "ok", delivered |-> "api", uncaught |-> FALSE]
                 ELSE [format |-> file.format, downloadUrl |-> file.downloadUrl,
                       api |-> "failed",
                       delivered |-> IF StandIn(file.format) = "blob"
                                     THEN "stand-in" ELSE "none",
                       uncaught |-> StandIn(file.format) # "blob"]
       ELSE /\ UNCHANGED network
            /\ downloaded' =
                 [format |-> file.format, downloadUrl |-> file.downloadUrl,
                  api |-> "none",
                  delivered |-> IF StandIn(file.format) = "blob"
                                THEN "stand-in" ELSE "none",
                  uncaught |-> StandIn(file.format) # "blob"]
    /\ UNCHANGED pageVars
    /\ UNCHANGED <<controllerVars, progressVars, pipelineVars>>
    /\ UNCHANGED <<fileData, musicRecommendations, inputFeatures, k,
                   recommendations, songLibrary, scalerVars>>

(***************************************************************************)
(* The progress number                                                     *)
(*                                                                         *)
(* uploadedFile.progress is a JavaScript number; here it is the fraction   *)
(* num / den, so that a value that is not an integer can be told.          *)
(***************************************************************************)

\* No XMLHttpRequest yet.
NoXhr == [loaded |-> 0, total |-> 0]

\* The integer n as a number.
Number(n) == [num |-> n, den |-> 1]

\* uploadFile, the 'progress' listener: (e.loaded / e.total) * 100.
percentComplete(e) == [num |-> e.loaded * 100, den |-> e.total]

\* Math.min(progress, n)
MathMin(progress, n) == IF progress.num < n * progress.den THEN progress ELSE Number(n)

\* Number.isInteger
IsInteger(progress) == progress.num % progress.den = 0

\* ProcessingStatus.progress as the backend reports it.
BackendProgress == {0, 50, 100}

\* handleFileUpload: a file of `total` bytes is submitted over HTTP; the
\* snapshot starts with progress 0.
XhrSend(total) ==
    /\ ~IS_MOCK_MODE
    /\ xhr = NoXhr
    /\ total \in 1..MaxTotal
    /\ xhr' = [loaded |-> 0, total |-> total]
    /\ jsProgress' = Number(0)
    /\ UNCHANGED <<controllerVars, recommenderVars>>

\* An xhr.upload 'progress' event with more bytes loaded: the listener calls
\* onProgress(percentComplete), which stores Math.min(progress, 100).
XhrProgress(loaded) ==
    /\ ~IS_MOCK_MODE
    /\ xhr.total > 0
    /\ loaded \in (xhr.loaded + 1)..xhr.total
    /\ xhr' = [xhr EXCEPT !.loaded = loaded]
    /\ jsProgress' = MathMin(percentComplete(xhr'), 100)
    /\ UNCHANGED <<controllerVars, recommenderVars>>

\* After the upload, a status response is applied: progress: status.progress.
StatusProgress(progress) ==
    /\ ~IS_MOCK_MODE
    /\ xhr.total > 0
    /\ xhr.loaded = xhr.total
    /\ progress \in BackendProgress
    /\ jsProgress' = Number(progress)
    /\ UNCHANGED xhr
    /\ UNCHANGED <<controllerVars, recommenderVars>>

(***************************************************************************)
(* Specifications                                                          *)
(***************************************************************************)

\* The state after App is constructed, whatever the transport: no
\* ResultsPage, no call of the recommender and no upload yet.
InitCommon ==
    /\ fileData = NoProps
    /\ musicRecommendations = <<>>
    /\ inputFeatures = NoFeatures
    /\ k = 0
    /\ recommendations = <<>>
    /\ songLibrary = REAL_SONG_LIBRARY
    /\ scalerData = <<>>
    /\ fitted = NoScaler
    /\ scalerPoint = <<>>
    /\ scaledPoint = <<>>
    /\ tracks = InitialTracks
    /\ outputs = InitialOutputs
    /\ isProcessing = FALSE
    /\ generatedFiles = <<>>
    /\ processing = NoProcessing
    /\ startClicks = 0
    /\ downloaded = NoDownload
    /\ network = {}
    /\ pipelineStatus = InitialPipelineStatus
    /\ pipelineTimers = {"timer1", "timer2"}
    /\ analysisComplete = FALSE
    /\ xhr = NoXhr
    /\ jsProgress = Number(0)
    /\ currentPage = "home"
    /\ uploadedFileData = NoData
    /\ inst = 0
    /\ uploadedFile = NoFile
    /\ statusCheckInterval = [i \in Insts |-> 0]
    /\ intervals = {}
    /\ uploads = [u \in Jobs |-> NoUpload]
    /\ submitted = 0
    /\ jobs = [u \in Jobs |-> NoJob]
    /\ polls = EmptyBag
    /\ navTimers = 0

\* The application with either transport.
Init == IS_MOCK_MODE \in BOOLEAN /\ InitCommon

Next ==
    \/ \E f \in Files : Submit(f)
    \/ resetUpload
    \/ \E p \in Pages : Navigate(p)
    \/ NavTimerFire
    \/ \E u \in Jobs : MockUploadTick(u)
    \/ \E u \in Jobs : \E p \in RealProgress : RealUploadProgress(u, p)
    \/ \E u \in Jobs : \E o \in RealOutcomes : RealUploadEnd(u, o)
    \/ \E u \in Jobs : UploadContinue(u)
    \/ \E j \in Jobs : PollTick(j)
    \/ \E m \in BagToSet(polls) : \E r \in settled(m.resp) : StatusContinue(m, r)
    \/ \E m \in BagToSet(polls) : \E r \in settled(m.resp) : ResultContinue(m, r)
    \/ \E j \in Jobs : MockProcessNextStep(j)
    \/ \E j \in Jobs : ServerAdvance(j)

Spec == Init /\ [][Next]_vars

\* The application built with the simulated transport (VITE_API_URL unset).
InitMock == IS_MOCK_MODE = TRUE /\ InitCommon

NextMock ==
    \/ \E f \in Files : Submit(f)
    \/ resetUpload
    \/ \E p \in Pages : Navigate(p)
    \/ NavTimerFire
    \/ \E u \in Jobs : MockUploadTick(u)
    \/ \E u \in Jobs : UploadContinue(u)
    \/ \E j \in Jobs : PollTick(j)
    \/ \E m \in BagToSet(polls) : \E r \in settled(m.resp) : StatusContinue(m, r)
    \/ \E m \in BagToSet(polls) : \E r \in settled(m.resp) : ResultContinue(m, r)
    \/ \E j \in Jobs : MockProcessNextStep(j)

SpecMock == InitMock /\ [][NextMock]_vars

\* One submission with the simulated transport and a user who, once the file is
\* submitted, neither resets nor navigates.  The event loop runs every task
\* that is due: a timer that is due again and again fires (it is disabled only
\* while a microtask runs), and a settled promise's continuation runs.
FirstSubmit(f) == submitted = 0 /\ Submit(f)

NavigateBeforeSubmit(p) == submitted = 0 /\ Navigate(p)

NextRun ==
    \/ \E f \in Files : FirstSubmit(f)
    \/ \E p \in Pages : NavigateBeforeSubmit(p)
    \/ NavTimerFire
    \/ \E u \in Jobs : MockUploadTick(u)
    \/ \E u \in Jobs : UploadContinue(u)
    \/ \E j \in Jobs : PollTick(j)
    \/ \E m \in BagToSet(polls) : \E r \in settled(m.resp) : StatusContinue(m, r)
    \/ \E m \in BagToSet(polls) : \E r \in settled(m.resp) : ResultContinue(m, r)
    \/ \E j \in Jobs : MockProcessNextStep(j)

FairRun ==
    /\ SF_vars(\E u \in Jobs : MockUploadTick(u))
    /\ WF_vars(\E u \in Jobs : UploadContinue(u))
    /\ SF_vars(\E j \in Jobs : PollTick(j))
    /\ WF_vars(\E m \in BagToSet(polls) : \E r \in settled(m.resp) : StatusContinue(m, r))
    /\ WF_vars(\E m \in BagToSet(polls) : \E r \in settled(m.resp) : ResultContinue(m, r))
    /\ SF_vars(\E j \in Jobs : MockProcessNextStep(j))
    /\ SF_vars(NavTimerFire)

SpecRun == InitMock /\ [][NextRun]_vars /\ FairRun

\* The recommender alone, called once with any query and any k.
NextRecommender ==
    \/ \E features \in Queries : \E kk \in 0..MaxK : CallRecommendSongs(features, kk)
    \/ CallRecommendSongsAgain

SpecRecommender == InitMock /\ [][NextRecommender]_vars

\* recommendSongs called with a feature missing or NaN.
NextInvalidInput ==
    \E features \in InvalidQueries : \E kk \in 0..MaxK : CallRecommendSongs(features, kk)

SpecInvalidInput == InitMock /\ [][NextInvalidInput]_vars

\* The exported functions of scoreApi.ts called in the simulated transport.
NextTransport ==
    \/ CallApi(uploadFileRequests)
    \/ \E j \in Jobs : CallApi(getProcessingStatusRequests(j))
    \/ \E j \in Jobs : CallApi(getProcessingResultRequests(j))
    \/ \E j \in Jobs : \E key \in OutputKeys : CallApi(downloadFileRequests(Url(j, key)))
    \/ \E j \in Jobs : CallApi(cancelJobRequests(j))
    \/ CallApi(healthCheckRequests)

SpecTransport == InitMock /\ [][NextTransport]_vars

\* The processing options of ResultsPage and its downloads list.
NextPage ==
    \/ \E id \in ClickedTracks : handleTrackToggle(id)
    \/ \E id \in ClickedOutputs : handleOutputToggle(id)
    \/ handleResetSelection
    \/ handleStartProcessing
    \/ TrackGeneratingTimer
    \/ \E key \in OutputKeys \cup {"#"} : TrackDoneTimer(Url(IF key = "#" THEN 0 ELSE 1, key))
    \/ OutputGeneratingTimer
    \/ \E key \in OutputKeys \cup {"#"} : OutputDoneTimer(Url(IF key = "#" THEN 0 ELSE 1, key))
    \/ FinishTimer

SpecPage == InitMock /\ [][NextPage]_vars

\* ResultsPage from its mount on: the two timers of its effect and the
\* processing options.
NextPipeline ==
    \/ timer1
    \/ timer2
    \/ NextPage

SpecPipeline == InitMock /\ [][NextPipeline]_vars

\* The processing options with two track cards and two output cards in use;
\* a timer that is due fires.
NextProcessing ==
    \/ \E id \in {"vocal", "piano"} : handleTrackToggle(id)
    \/ \E id \in {"midi", "pdf"} : handleOutputToggle(id)
    \/ handleResetSelection
    \/ handleStartProcessing
    \/ TrackGeneratingTimer
    \/ \E key \in OutputKeys \cup {"#"} : TrackDoneTimer(Url(IF key = "#" THEN 0 ELSE 1, key))
    \/ OutputGeneratingTimer
    \/ \E key \in OutputKeys \cup {"#"} : OutputDoneTimer(Url(IF key = "#" THEN 0 ELSE 1, key))
    \/ FinishTimer

FairProcessing ==
    /\ WF_vars(TrackGeneratingTimer)
    /\ WF_vars(\E key \in OutputKeys \cup {"#"} :
                  TrackDoneTimer(Url(IF key = "#" THEN 0 ELSE 1, key)))
    /\ WF_vars(OutputGeneratingTimer)
    /\ WF_vars(\E key \in OutputKeys \cup {"#"} :
                  OutputDoneTimer(Url(IF key = "#" THEN 0 ELSE 1, key)))
    /\ WF_vars(FinishTimer)

SpecProcessing == InitMock /\ [][NextProcessing]_vars /\ FairProcessing

\* The same up to the first download from the list.
NextDownloads ==
    \/ downloaded = NoDownload /\ NextPage
    \/ \E i \in 1..Len(generatedFiles) : \E api \in ApiOutcomes :
          handleDownload(generatedFiles[i], api)

SpecDownloads == InitMock /\ [][NextDownloads]_vars

\* The scaler alone, on libraries with a constant column.
NextScaler ==
    \/ \E rows \in ConstantColumnLibraries : CallStandardScale(rows)
    \/ \E value \in FeatureValues : CallApplyScaling(<<value, Float(2)>>)

SpecScaler == InitMock /\ [][NextScaler]_vars

\* ResultsPage alone, rendered with whatever data UploadPage published.
NextResultsPage == \E fd \in FileDatas : ResultsPageRender(fd)

SpecResultsPage == InitMock /\ [][NextResultsPage]_vars

\* The progress number of one upload over HTTP and of the polls after it.
InitReal == IS_MOCK_MODE = FALSE /\ InitCommon

NextProgress ==
    \/ \E total \in 1..MaxTotal : XhrSend(total)
    \/ \E loaded \in 1..MaxTotal : XhrProgress(loaded)
    \/ \E progress \in BackendProgress : StatusProgress(progress)

SpecProgress == InitReal /\ [][NextProgress]_vars

(***************************************************************************)
(* Properties                                                              *)
(***************************************************************************)

\* The submission whose handleFileUpload created the snapshot on screen (the
\* dropzone is gone while a snapshot exists, so it is the latest one); 0 if none.
Current == IF uploadedFile # NoFile THEN submitted ELSE 0

\* The uploads of instance i whose promise is not yet consumed.
UploadsInFlight(i) ==
    {u \in Jobs : uploads[u].inst = i /\ uploads[u].phase \in {"sending", "loaded"}}

\* The active poll timers that instance i started.
TimersOf(i) == {j \in intervals : uploads[j].inst = i}

\* A callback that belongs to submission u takes this step.
CallbackOf(u) ==
    \/ MockUploadTick(u)
    \/ \E p \in RealProgress : RealUploadProgress(u, p)
    \/ UploadContinue(u)
    \/ \E m \in BagToSet(polls) : \E r \in settled(m.resp) :
          m.job = u /\ (StatusContinue(m, r) \/ ResultContinue(m, r))

\* C1: with the simulated transport and no reset or navigation, a submitted
\* file is shown uploading until progress 100, then processing from progress 0,
\* and in the end completed with progress 100 and its result handed to App.
C1_SubmitRunsToCompleted ==
    /\ (uploadedFile.status = "uploading")
          ~> (uploadedFile.status = "uploading" /\ uploadedFile.progress = 100)
    /\ [][uploadedFile.status = "uploading" /\ uploadedFile'.status # "uploading"
            => /\ uploadedFile.progress = 100
               /\ uploadedFile'.status = "processing"
               /\ uploadedFile'.progress = 0]_vars
    /\ (uploadedFile.status = "processing")
          ~> (/\ uploadedFile.status = "completed"
              /\ uploadedFile.progress = 100
              /\ uploadedFileData # NoData
              /\ uploadedFileData.jobId = uploadedFile.jobId)

C1_Witness ==
    /\ IS_MOCK_MODE
    /\ uploadedFile.status = "completed"
    /\ uploadedFile.progress = 100
    /\ uploadedFileData.jobId = 1

\* C2: when reset() was called before the upload resolved, the upload's late
\* resolution changes nothing: the snapshot stays absent, no poll timer starts,
\* no result data is published and the page stays.
C2_StaleUploadChangesNothing ==
    [][\A u \in Jobs :
          (UploadContinue(u) /\ Mounted(uploads[u].inst) /\ uploadedFile = NoFile)
             => /\ uploadedFile' = NoFile
                /\ intervals' = intervals
                /\ uploadedFileData' = uploadedFileData
                /\ currentPage' = currentPage]_vars

\* C3: reset() called while the job is processing cancels its poll timer.
C3_ResetCancelsTimer ==
    [][(resetUpload /\ uploadedFile.status = "processing")
          => uploadedFile.jobId \notin intervals']_vars

\* C4: after submit, reset, submit, no callback of the first job modifies the
\* snapshot of the second.
C4_StaleCallbacksLeaveSnapshot ==
    [][\A u \in Jobs :
          (Current # 0 /\ u # Current /\ CallbackOf(u))
             => uploadedFile' = uploadedFile]_vars

\* C5: once the status is completed or error it stays so until the snapshot is
\* discarded.
C5_TerminalIsStable ==
    [][(uploadedFile.status \in {"completed", "error"} /\ uploadedFile' # NoFile)
          => uploadedFile'.status = uploadedFile.status]_vars

\* C6: once the completed poll response of a job has been processed (and its
\* result fetch issued), the job's timer is off and no status request for it is
\* outstanding, so that the result is fetched and published once.
C6_OneFetchNoLaterPoll ==
    [][\A m \in BagToSet(polls) : \A r \in settled(m.resp) :
          (StatusContinue(m, r) /\ r.ok /\ r.status = "completed")
             => /\ m.job \notin intervals'
                /\ \A n \in BagToSet(polls') :
                      ~(n.job = m.job /\ n.stage = "status")]_vars

\* C7: an UploadPage instance has at most one active poll interval timer.
C7_AtMostOneTimer == \A i \in Insts : Cardinality(TimersOf(i)) <= 1

\* A second startStatusPolling of the same instance has replaced the timer of
\* a job that is still being processed.
C7_Witness ==
    \E j1, j2 \in Jobs :
        /\ j1 # j2
        /\ uploads[j1].inst = uploads[j2].inst
        /\ uploads[j1].phase = "done" /\ jobs[j1].status = "processing"
        /\ IS_MOCK_MODE
        /\ j1 \notin intervals
        /\ j2 \in intervals

\* C8: an instance has at most one upload in flight, and a submission starts
\* only when no earlier upload and no poll timer of the instance is active.
C8_AtMostOneUpload ==
    /\ [](\A i \in Insts : Cardinality(UploadsInFlight(i)) <= 1)
    /\ [][(\E f \in Files : Submit(f))
             => UploadsInFlight(inst) = {} /\ TimersOf(inst) = {}]_vars

\* C9: progress never decreases while the status stays uploading or stays
\* processing; it decreases only on uploading -> processing, to 0.
C9_ProgressMonotone ==
    [][(uploadedFile # NoFile /\ uploadedFile' # NoFile
        /\ uploadedFile'.progress < uploadedFile.progress)
          => /\ uploadedFile.status = "uploading"
             /\ uploadedFile'.status = "processing"
             /\ uploadedFile'.progress = 0]_vars

\* C10: while the snapshot is processing job j and no terminal status or poll
\* failure for j has been received (a completed one leaves the result fetch
\* outstanding), the poll timer of j is active.
C10_ProcessingIsPolled ==
    (/\ uploadedFile.status = "processing"
     /\ \A m \in BagToSet(polls) :
           ~(m.job = uploadedFile.jobId /\ m.stage = "result"))
        => uploadedFile.jobId \in intervals

\* C11: when a poll of the job on screen returns status error with a message,
\* the snapshot becomes error with exactly that message, the instance has no
\* poll timer left, and so no further status call is made.
C11_ErrorStatusStopsPolling ==
    [][\A m \in BagToSet(polls) : \A r \in settled(m.resp) :
          (/\ StatusContinue(m, r)
           /\ r.ok /\ r.status = "error" /\ r.error # ""
           /\ m.job = Current /\ Mounted(uploads[m.job].inst))
             => /\ uploadedFile'.status = "error"
                /\ uploadedFile'.error = r.error
                /\ TimersOf(uploads[m.job].inst)' = {}]_vars

C11_Witness ==
    /\ uploadedFile.status = "error"
    /\ uploadedFile.error = "disk full"
    /\ uploadedFile.jobId = Current
    /\ intervals = {}

\* C12: when getProcessingStatus rejects for the job on screen, which is
\* processing, the snapshot becomes error with the message the catch block
\* makes up, not the text of the exception, and the instance has no poll timer
\* left.
C12_PollFailureStopsPolling ==
    [][\A m \in BagToSet(polls) : \A r \in settled(m.resp) :
          (/\ StatusContinue(m, r)
           /\ ~r.ok
           /\ uploadedFile.status = "processing"
           /\ m.job = Current /\ Mounted(uploads[m.job].inst))
             => /\ uploadedFile'.status = "error"
                /\ uploadedFile'.error =
                      "Unable to get processing status, backend may be disconnected"
                /\ uploadedFile'.error # r.error
                /\ TimersOf(uploads[m.job].inst)' = {}]_vars

C12_Witness ==
    /\ uploadedFile.status = "error"
    /\ uploadedFile.error = "Unable to get processing status, backend may be disconnected"
    /\ uploadedFile.jobId = Current
    /\ jobs[Current].status = "processing"
    /\ intervals = {}

\* C13: when the upload of the file on screen fails while it is uploading, the
\* snapshot becomes error with the message of the transport, no jobId is
\* recorded and no poll timer of the instance is running afterwards.
C13_UploadFailure ==
    [][\A u \in Jobs :
          (/\ UploadContinue(u)
           /\ uploads[u].outcome # "ok"
           /\ uploadedFile.status = "uploading"
           /\ u = Current /\ Mounted(uploads[u].inst))
             => /\ uploadedFile'.status = "error"
                /\ uploadedFile'.error =
                      (IF uploads[u].outcome = "successFalse" THEN "Upload failed"
                       ELSE uploads[u].outcome)
                /\ uploadedFile'.jobId = 0
                /\ TimersOf(uploads[u].inst)' = {}]_vars

\* C14: when the result fetch of the job on screen fails, the snapshot becomes
\* error with a message and not completed, no data is handed to App and no
\* navigation is scheduled.
C14_ResultFailureIsCaught ==
    [][\A m \in BagToSet(polls) : \A r \in settled(m.resp) :
          (/\ ResultContinue(m, r)
           /\ ~r.ok
           /\ m.job = Current /\ Mounted(uploads[m.job].inst))
             => /\ uploadedFile'.status = "error"
                /\ uploadedFile'.error # ""
                /\ uploadedFileData' = uploadedFileData
                /\ navTimers' = navTimers]_vars

C14_Witness ==
    /\ uploadedFile.status = "error"
    /\ uploadedFile.jobId = Current
    /\ jobs[Current].status = "completed"
    /\ polls = EmptyBag
    /\ uploadedFileData = NoData
    /\ navTimers = 0

\* C15: once the user has left the upload page with a job uploading or
\* processing, the job's callbacks do nothing any more: no poll tick fires for
\* it, no result data is published and the page is not changed by it.
C15_NavigateAwayDiscards ==
    [][\A u \in Jobs :
          (uploads[u].inst # 0 /\ ~Mounted(uploads[u].inst))
             => /\ ~PollTick(u)
                /\ (CallbackOf(u) => /\ uploadedFileData' = uploadedFileData
                                      /\ navTimers' = navTimers)]_vars

\* C17: the snapshot carries an error message only when its status is error.
C17_ErrorOnlyInError ==
    uploadedFile.error # "" => uploadedFile.status = "error"

\* C16: the progress of the snapshot is an integer from 0 to 100.
C16_ProgressIsInteger0to100 ==
    /\ IsInteger(jsProgress)
    /\ 0 <= jsProgress.num
    /\ jsProgress.num <= 100 * jsProgress.den

\* The MusicFeatures an analysis of a result holds.
AnalysisFeatures(analysis) ==
    [bpm |-> analysis.bpm, average_pitch |-> analysis.avgPitch,
     pitch_range |-> analysis.pitchRange, key_stability |-> analysis.keyStability,
     mode_major |-> analysis.modeMajor, note_density |-> analysis.noteDensity,
     rhythm_variety |-> analysis.rhythmVariety]

\* C18: the recommendations ResultsPage shows are those of the analysis
\* features of the result it was given.
C18_RecommendationsOfAnalysis ==
    fileData # NoProps =>
        musicRecommendations = recommendSongs(AnalysisFeatures(fileData.analysis), TopK)

\* C19: called with the raw features of a library entry and k >= 1,
\* recommendSongs returns that entry first, with similarity_score 100.
C19_LibraryEntryFirst ==
    \A s \in 1..Len(REAL_SONG_LIBRARY) :
        (inputFeatures = RowFeatures(REAL_SONG_LIBRARY[s].features) /\ k >= 1)
            => /\ Len(recommendations) >= 1
               /\ recommendations[1].title = REAL_SONG_LIBRARY[s].title
               /\ recommendations[1].artist = REAL_SONG_LIBRARY[s].artist
               /\ recommendations[1].similarity_score = Thousandths(100)

C19_Witness ==
    /\ inputFeatures = RowFeatures(REAL_SONG_LIBRARY[Len(REAL_SONG_LIBRARY)].features)
    /\ k = MaxK
    /\ recommendations[1].title = "The Girl from Ipanema"

\* The place in the library of the song with this title.
LibraryIndex(title) ==
    CHOOSE s \in 1..Len(REAL_SONG_LIBRARY) : REAL_SONG_LIBRARY[s].title = title

\* The scaler of the library and its scaled rows.
LibraryScaler ==
    standardScale(Array([s \in 1..Len(REAL_SONG_LIBRARY) |-> REAL_SONG_LIBRARY[s].features]))

\* The distances of the last query to the songs it was answered with, in the
\* order of the answer.
QueryDistances ==
    LET inputVector == <<inputFeatures.bpm, inputFeatures.average_pitch,
                         inputFeatures.pitch_range, inputFeatures.key_stability,
                         inputFeatures.mode_major, inputFeatures.note_density,
                         inputFeatures.rhythm_variety>>
        scaledInput == applyScaling(inputVector, LibraryScaler.mean, LibraryScaler.std)
    IN Array([r \in 1..Len(recommendations) |->
                euclideanDistance(scaledInput,
                    LibraryScaler.scaled[LibraryIndex(recommendations[r].title)])])

\* C20: recommendSongs returns min(k, |library|) entries, each another entry
\* of the library, in the order of their distance to the query (and so of
\* their similarity_score, from the highest down).
C20_TopKSorted ==
    inputFeatures # NoFeatures =>
        /\ Len(recommendations) = Min(k, Len(REAL_SONG_LIBRARY))
        /\ \A r \in 1..Len(recommendations) :
              \E s \in 1..Len(REAL_SONG_LIBRARY) :
                 /\ recommendations[r].title = REAL_SONG_LIBRARY[s].title
                 /\ recommendations[r].artist = REAL_SONG_LIBRARY[s].artist
        /\ \A r1, r2 \in 1..Len(recommendations) :
              r1 < r2 =>
                 /\ recommendations[r1].title # recommendations[r2].title
                 /\ recommendations[r1].similarity_score
                       >= recommendations[r2].similarity_score
        /\ LET distance == QueryDistances
           IN \A r \in 1..(Len(recommendations) - 1) : distance[r] <= distance[r + 1]

C20_Witness ==
    /\ inputFeatures # NoFeatures
    /\ k = MaxK
    /\ Len(recommendations) = Len(REAL_SONG_LIBRARY)
    /\ recommendations[1].similarity_score > recommendations[2].similarity_score
    /\ recommendations[Len(recommendations)].similarity_score = 0

\* The distances of the last query to every entry of the library, in the
\* order of the library.
LibraryDistances ==
    LET inputVector == <<inputFeatures.bpm, inputFeatures.average_pitch,
                         inputFeatures.pitch_range, inputFeatures.key_stability,
                         inputFeatures.mode_major, inputFeatures.note_density,
                         inputFeatures.rhythm_variety>>
        scaledInput == applyScaling(inputVector, LibraryScaler.mean, LibraryScaler.std)
    IN Array([s \in 1..Len(REAL_SONG_LIBRARY) |->
                euclideanDistance(scaledInput, LibraryScaler.scaled[s])])

\* C21: of two library entries at the same distance from the query, the one
\* earlier in the library is ranked first; when an entry is returned, every
\* earlier entry at its distance is returned before it, so at the cut-off k
\* it is the earlier one that is kept.
C21_TiesInLibraryOrder ==
    inputFeatures # NoFeatures =>
        LET distance == LibraryDistances
        IN \A r \in 1..Len(recommendations) :
              LET later == LibraryIndex(recommendations[r].title)
              IN \A earlier \in 1..(later - 1) :
                    distance[earlier] = distance[later] =>
                       \E before \in 1..(r - 1) :
                          recommendations[before].title = REAL_SONG_LIBRARY[earlier].title

\* The Four Seasons: Spring and Canon in D are at the same distance, fourth
\* nearest, and k = 4 keeps the first of them only.
C21_Witness ==
    /\ inputFeatures \in TieQueries
    /\ k = TopK
    /\ Len(recommendations) = TopK
    /\ recommendations[TopK].title = REAL_SONG_LIBRARY[3].title
    /\ LibraryDistances[3] = LibraryDistances[4]
    /\ \A r \in 1..TopK : recommendations[r].title # REAL_SONG_LIBRARY[4].title

C24_ScoreOfDistance ==
    inputFeatures # NoFeatures =>
        LET distance == QueryDistances
            score == [r \in 1..Len(recommendations) |-> recommendations[r].similarity_score]
        IN /\ \A r \in 1..Len(recommendations) :
                 /\ score[r] = IF Thousandths(100) - 8 * distance[r] > 0
                               THEN Thousandths(100) - 8 * distance[r] ELSE 0
                 /\ score[r] >= 0
                 /\ score[r] <= Thousandths(100)
                 /\ distance[r] >= 12500 => score[r] = 0
           /\ \A r1, r2 \in 1..Len(recommendations) :
                 (distance[r1] < distance[r2] /\ distance[r1] < 12500)
                    => score[r1] > score[r2]

\* An answer with a score strictly between 0 and 100 and, further than 12.5,
\* a score of 0.
C24_Witness ==
    /\ inputFeatures # NoFeatures
    /\ \E r1, r2 \in 1..Len(recommendations) :
          /\ recommendations[r1].similarity_score > 0
          /\ recommendations[r1].similarity_score < Thousandths(100)
          /\ QueryDistances[r2] > 12500
          /\ recommendations[r2].similarity_score = 0

\* C25: recommendSongs called with a feature that is missing or not finite
\* fails before it ranks anything, and returns no recommendation.
C25_InvalidInputFails ==
    (\E features \in InvalidQueries : inputFeatures = features)
        => recommendations = <<>>

\* C22: when a column of the library has the same value in every row,
\* standardScale gives exactly 0 in that column of every row and
\* applyScaling exactly 0 in that column of any point.
C22_ConstantColumnIsZero ==
    scalerData # <<>> =>
        \A i \in 1..Len(scalerData[1]) :
            (\A r \in 1..Len(scalerData) : scalerData[r][i] = scalerData[1][i]) =>
                /\ \A r \in 1..Len(scalerData) : fitted.scaled[r][i] = Zero
                /\ scalerPoint # <<>> => scaledPoint[i] = Zero

\* C27: in the simulated transport getProcessingResult(jobId) succeeds exactly
\* when getProcessingStatus(jobId) reports completed; for a job that does not
\* exist, is queued or is processing it rejects.
C27_ResultIffCompleted ==
    IS_MOCK_MODE =>
        \A j \in Jobs :
            /\ getProcessingResult(j).ok
                  <=> (getProcessingStatus(j).ok /\ getProcessingStatus(j).status = "completed")
            /\ jobs[j].status \in {"none", "queued", "processing"}
                  => getProcessingResult(j) = Reject

\* One job is completed and answers with its result while another is still
\* processing and rejects.
C27_Witness ==
    /\ IS_MOCK_MODE
    /\ \E j1, j2 \in Jobs :
          /\ getProcessingStatus(j1).status = "completed"
          /\ getProcessingResult(j1) = ResultOk
          /\ getProcessingStatus(j2).status = "processing"
          /\ getProcessingResult(j2) = Reject

\* C28: in the simulated transport no operation (upload, status, result,
\* cancel, download, health) sends a request over the network.
C28_MockSendsNoRequest == IS_MOCK_MODE => network = {}

\* C26: when downloadFile fails, handleDownload falls back to a stand-in it
\* builds itself and delivers a file, whatever the format, and no error
\* leaves the handler.
C26_DownloadFallsBack ==
    downloaded.api = "failed" =>
        (downloaded.delivered = "stand-in" /\ ~downloaded.uncaught)

\* C29: the downloads list is empty until Start Processing is clicked; the
\* click keeps the tracks and outputs enabled at that moment, and every file
\* appended to the list later is the file of one of them.
C29_FilesOfSelection ==
    /\ [](startClicks = 0 => generatedFiles = <<>>)
    /\ [][startClicks' # startClicks =>
            /\ \A id \in Range(processing'.enabledTracks) : tracks[id].enabled
            /\ \A id \in Range(processing'.enabledOutputs) : outputs[id].enabled]_vars
    /\ [][generatedFiles' # generatedFiles =>
            \E file \in Range(generatedFiles') :
                /\ generatedFiles' = Append(generatedFiles, file)
                /\ file.kind = "track" => file.id \in Range(processing.enabledTracks)
                /\ file.kind = "output" => file.id \in Range(processing.enabledOutputs)]_vars

\* The list holds the file of an output that was enabled at the click and has
\* been switched off since, and none of an output that was off at the click.
C29_Witness ==
    /\ startClicks = 1
    /\ isProcessing
    /\ Len(generatedFiles) = 2
    /\ generatedFiles[1].id = "vocal"
    /\ generatedFiles[2].id = "midi"
    /\ ~outputs["midi"].enabled
    /\ outputs["pdf"].enabled
    /\ processing.enabledOutputs = <<"midi">>

\* C30: when a job reaches completed and the user neither resets nor
\* navigates, the current page eventually becomes results, where App shows
\* ResultsPage with the file data of that job.
C30_CompletedLeadsToResults ==
    \A j \in Jobs :
        (jobs[j].status = "completed")
            ~> (/\ currentPage = "results"
                /\ uploadedFileData # NoData
                /\ uploadedFileData.jobId = j)

C30_Witness ==
    /\ IS_MOCK_MODE
    /\ jobs[1].status = "completed"
    /\ navTimers = 0
    /\ currentPage = "results"
    /\ uploadedFileData.jobId = 1
    /\ uploadedFile = NoFile

\* C31: with the simulated transport the error status is unreachable: whatever
\* the user submits, resets and navigates, no upload fails, every poll of a
\* job answers with a status other than error, every result fetch issued
\* after a completed poll succeeds, and the snapshot is never in error.
C31_MockNeverErrors ==
    /\ uploadedFile.status # "error"
    /\ uploadedFile.error = ""
    /\ \A u \in Jobs : uploads[u].outcome \in {"", "ok"}
    /\ \A m \in BagToSet(polls) :
          /\ m.resp.ok
          /\ m.resp.status # "error"
          /\ m.stage = "result" => m.resp = ResultOk

\* After submit, reset, submit on one page the result fetch of the second job
\* has been issued and answered.
C31_Witness ==
    /\ IS_MOCK_MODE
    /\ submitted = 2
    /\ uploads[1].inst = uploads[2].inst
    /\ \E m \in BagToSet(polls) :
          m.job = 2 /\ m.stage = "result" /\ m.resp = ResultOk

\* C32: in every state of the simulated job table that a caller can observe
\* (between two tasks), a job whose status is completed has its result.
C32_CompletedHasResult ==
    IS_MOCK_MODE => \A j \in Jobs : jobs[j].status = "completed" => jobs[j].result

\* The last step has run and the call after it is still to come.
C32_Witness ==
    /\ IS_MOCK_MODE
    /\ \E j \in Jobs :
          /\ jobs[j].status = "completed"
          /\ jobs[j].idx = Len(steps)
          /\ jobs[j].timer
          /\ jobs[j].result

\* C33: the status of a simulated job goes through one sequence, whatever the
\* file: its progress is 10, 25, 40, 60, 70, 85, 95, 100 in that order (so it
\* never decreases), its status is processing below progress 100 and completed
\* at 100, a completed status never changes again, and a job that is
\* processing does get to completed.
C33_StatusSequence ==
    /\ [](\A j \in Jobs :
             jobs[j].status # "none"
                => LET values == <<10, 25, 40, 60, 70, 85, 95, 100>>
                   IN \E n \in 1..Len(values) :
                         /\ jobs[j].progress = values[n]
                         /\ jobs[j].status = IF n < Len(values) THEN "processing"
                                             ELSE "completed")
    /\ [][\A j \in Jobs :
             StatusOf(jobs'[j]) # StatusOf(jobs[j])
                => LET values == <<10, 25, 40, 60, 70, 85, 95, 100>>
                   IN \/ jobs[j].status = "none" /\ jobs'[j].progress = values[1]
                      \/ \E n \in 1..(Len(values) - 1) :
                            /\ jobs[j].progress = values[n]
                            /\ jobs'[j].progress = values[n + 1]]_vars
    /\ [][\A j \in Jobs :
             jobs[j].status = "completed"
                => StatusOf(jobs'[j]) = StatusOf(jobs[j])]_vars
    /\ \A j \in Jobs :
          (jobs[j].status = "processing")
             ~> (jobs[j].status = "completed" /\ jobs[j].progress = 100)

\* The job is completed and the call after the last step has run as well.
C33_Witness ==
    /\ IS_MOCK_MODE
    /\ \E j \in Jobs :
          /\ jobs[j].status = "completed"
          /\ jobs[j].progress = 100
          /\ jobs[j].idx = Len(steps)
          /\ ~jobs[j].timer

\* C34: a poll response with status processing changes only progress and
\* currentStep of the snapshot: status, jobId, file name, file size and error
\* stay as they were, and progress and currentStep become those of the
\* response when the snapshot is the mounted page's.
C34_ProcessingPollFrame ==
    [][\A m \in BagToSet(polls) : \A r \in settled(m.resp) :
          (StatusContinue(m, r) /\ r.ok /\ r.status = "processing")
             => /\ uploadedFile'.status = uploadedFile.status
                /\ uploadedFile'.jobId = uploadedFile.jobId
                /\ uploadedFile'.name = uploadedFile.name
                /\ uploadedFile'.size = uploadedFile.size
                /\ uploadedFile'.error = uploadedFile.error
                /\ (Mounted(uploads[m.job].inst) /\ uploadedFile # NoFile)
                      => /\ uploadedFile'.progress = r.progress
                         /\ uploadedFile'.currentStep =
                               IF r.currentStep # "" THEN r.currentStep
                               ELSE "Processing..."]_vars

\* A processing response has been applied to the snapshot of its own job.
C34_Witness ==
    /\ uploadedFile.status = "processing"
    /\ uploadedFile.jobId = Current
    /\ uploadedFile.progress = jobs[Current].progress
    /\ uploadedFile.progress > 0
    /\ uploadedFile.currentStep = jobs[Current].currentStep
    /\ jobs[Current].status = "processing"

\* C35: on the results page, once Start Processing has been clicked (the
\* button needs a track or an output enabled), isProcessing returns to false,
\* whatever the tracks and outputs enabled: tracks only, outputs only or both.
C35_ProcessingEnds == isProcessing ~> ~isProcessing

\* A run with two tracks and no output has ended.
C35_Witness ==
    /\ ~isProcessing
    /\ startClicks = 1
    /\ Len(generatedFiles) = 2
    /\ \A i \in 1..Len(generatedFiles) : generatedFiles[i].kind = "track"
    /\ pipelineStatus.synthesize = "done"
    /\ pipelineStatus.engrave = "not-started"

\* C36: on the results page no output starts generating before every track
\* that was enabled at the click has reached success (its second timer has
\* run), and isProcessing returns to false only after every track and every
\* output enabled at the click has reached success.
C36_TracksBeforeOutputs ==
    /\ [][(\E o \in Range(OutputIds) :
              outputs[o].status # "generating" /\ outputs'[o].status = "generating")
            => /\ processing.processIndex = Len(processing.enabledTracks)
               /\ \A t \in Range(processing.enabledTracks) :
                     tracks[t].status = "success"]_vars
    /\ [][(isProcessing /\ ~isProcessing')
            => /\ processing.processIndex = Len(processing.enabledTracks)
               /\ processing.outputsDone = Len(processing.enabledOutputs)
               /\ \A t \in Range(processing.enabledTracks) :
                     tracks[t].status = "success"
               /\ \A o \in Range(processing.enabledOutputs) :
                     outputs[o].status = "success"]_vars

\* Two tracks were enabled at the click, both are done and the first output
\* is generating.
C36_Witness ==
    /\ isProcessing
    /\ processing.enabledTracks = <<"vocal", "piano">>
    /\ tracks["vocal"].status = "success"
    /\ tracks["piano"].status = "success"
    /\ processing.enabledOutputs # <<>>
    /\ outputs[processing.enabledOutputs[1]].status = "generating"

\* C37: on the results page the status of a pipeline step never moves
\* backwards in the order not-started, running, done: once Start Processing
\* has set synthesize to running, or the run has set synthesize and engrave
\* to done, no later timer sets them back to not-started, whenever the click
\* comes relative to the timers of 3 s and 6 s.
C37_PipelineNeverBackwards ==
    [][LET rank == [status \in {"not-started", "running", "done"} |->
                       CASE status = "not-started" -> 0
                         [] status = "running" -> 1
                         [] OTHER -> 2]
       IN \A step \in DOMAIN pipelineStatus :
             rank[pipelineStatus'[step]] >= rank[pipelineStatus[step]]]_vars

\* C38: in every reachable state of the application, when the current page is
\* results the uploaded-file data is not null; and the data, once stored, is
\* never cleared, and only the delayed navigation of the completion branch
\* sets the page to results.
C38_ResultsHasData ==
    /\ [](currentPage = "results" => uploadedFileData # NoData)
    /\ [](navTimers > 0 => uploadedFileData # NoData)
    /\ [][uploadedFileData # NoData => uploadedFileData' # NoData]_vars
    /\ [][(currentPage # "results" /\ currentPage' = "results")
            => navTimers' = navTimers - 1]_vars

\* The results page is shown with the data of the first job.
C38_Witness ==
    /\ currentPage = "results"
    /\ uploadedFileData.jobId = 1
    /\ uploadedFileData.name = "a.mp3"
====
